---- MODULE Spec2Model ----
(***************************************************************************)
(* Model of the OOXML repair pipeline (skills/jetredline/ooxml_fixup.py)   *)
(* and of the pre-pack validator (skills/jetredline/ooxml_validate.py).    *)
(*                                                                         *)
(* A package is the unpacked directory: a function from part path to a     *)
(* part.  A part is [st, els]: st is "absent" (no such file), "bad" (the   *)
(* file exists but minidom.parse raises) or "ok"; els is the sequence of   *)
(* its elements in document order.  An element is [tag, a, text, kids]:    *)
(* a maps attribute names to string values, text is the concatenation of   *)
(* its direct text-node children as a sequence of characters, kids holds   *)
(* the w:p paragraphs of a w:comment.  The manifest and metadata entries   *)
(* the phases remove are leaf elements, as the package schemas have them.  *)
(***************************************************************************)
EXTENDS Integers, Sequences, FiniteSets, TLC

VARIABLES pkg, todo, log, verdict, mem, pkg0

vars == <<pkg, todo, log, verdict, mem, pkg0>>

(***************************************************************************)
(* Bounds of the model.                                                    *)
(***************************************************************************)
MaxAnn == 4      \* annotation nodes in document.xml
MaxWt == 2       \* w:t nodes in document.xml
MaxComments == 2 \* w:comment entries in comments.xml
MaxMeta == 2     \* entries in each comment metadata part
MaxEntries == 3  \* entries of one kind in a manifest
PipeSize == 2    \* annotation groups and manifest entries in the pipeline runs
PipeMeta == 1    \* entries per comment part in the pipeline runs
ParSize == 1     \* annotation groups of document.xml in the parallel runs
MaxGoodWrites == 9 \* writes that succeed before the one that fails

(***************************************************************************)
(* Generic helpers.                                                        *)
(***************************************************************************)
Range(s) == {s[i] : i \in DOMAIN s}

RECURSIVE SumSeq(_)
SumSeq(s) == IF s = <<>> THEN 0 ELSE Head(s) + SumSeq(Tail(s))

RECURSIVE SetToSeq(_)
SetToSeq(S) == IF S = {} THEN <<>>
               ELSE LET x == CHOOSE y \in S : TRUE IN <<x>> \o SetToSeq(S \ {x})

RECURSIVE Concat(_)
Concat(ss) == IF ss = <<>> THEN <<>> ELSE Head(ss) \o Concat(Tail(ss))

Max(S) == CHOOSE x \in S : \A y \in S : y <= x

\* sorted(S) for a finite set of integers
RECURSIVE Sorted(_)
Sorted(S) == IF S = {} THEN <<>>
             ELSE LET m == CHOOSE x \in S : \A y \in S : x <= y
                  IN <<m>> \o Sorted(S \ {m})

\* s without the positions in the set rm
Without(s, rm) ==
  LET F[i \in 0..Len(s)] ==
        IF i = 0 THEN <<>>
        ELSE IF i \in rm THEN F[i-1] ELSE Append(F[i-1], s[i])
  IN F[Len(s)]

(***************************************************************************)
(* str() and int() on w:id attribute values.  str writes the canonical     *)
(* decimal spelling; int accepts a decimal spelling with or without a      *)
(* leading zero ("01" and "1" both parse to 1) and raises ValueError on    *)
(* the other values the model draws ("x", and "" which the callers skip).  *)
(***************************************************************************)
DigitStr == <<"0", "1", "2", "3", "4", "5", "6", "7", "8", "9">>

RECURSIVE Str(_)
Str(n) == IF n < 10 THEN DigitStr[n + 1]
          ELSE Str(n \div 10) \o DigitStr[(n % 10) + 1]

ParseMax == 2 * (MaxAnn + PipeSize) + 4

Spellings(n) == {Str(n), "0" \o Str(n)}

\* mutant: int() takes a value that is no number for 0 instead of raising
IntTable_LenientParse ==
  [n \in 0..ParseMax |-> IF n = 0 THEN Spellings(0) \cup {"x"} ELSE Spellings(n)]

IntTable == [n \in 0..ParseMax |-> Spellings(n)]

IsInt(val) == \E n \in 0..ParseMax : val \in IntTable[n]

IntOf(val) == CHOOSE n \in 0..ParseMax : val \in IntTable[n]

(***************************************************************************)
(* Elements and parts.                                                     *)
(***************************************************************************)
NoAttrs == [x \in {} |-> ""]

El(tag, attrs) == [tag |-> tag, a |-> attrs, text |-> <<>>, kids |-> <<>>]

getAttribute(el, name) == IF name \in DOMAIN el.a THEN el.a[name] ELSE ""

setAttribute(el, name, v) == [el EXCEPT !.a = (name :> v) @@ el.a]

DocPath == "word/document.xml"
CommentsPath == "word/comments.xml"
ExtPath == "word/commentsExtended.xml"
IdsPath == "word/commentsIds.xml"
ExtensiblePath == "word/commentsExtensible.xml"
CtPath == "[Content_Types].xml"
\* unpacked_dir.rglob("*.rels"): the .rels files, in the order the directory
\* walk yields them
RelsOrder == <<"_rels/.rels", "word/_rels/document.xml.rels">>
RelsPaths == {RelsOrder[k] : k \in DOMAIN RelsOrder}

Paths == {DocPath, CommentsPath, ExtPath, IdsPath, ExtensiblePath, CtPath}
           \cup RelsPaths

Absent == [st |-> "absent", els |-> <<>>]
Bad == [st |-> "bad", els |-> <<>>]
Ok(els) == [st |-> "ok", els |-> els]

\* Path.exists()
exists(p, path) == p[path].st # "absent"

\* parse_xml: (doc, True), or (None, False) when the file is missing or is
\* not well-formed
parse_ok(p, path) == p[path].st = "ok"

\* doc.getElementsByTagName(tag), as positions in document order
get_elements_by_tag(els, tag) == Sorted({i \in DOMAIN els : els[i].tag = tag})

BOOKMARK_TAGS == <<"w:bookmarkStart", "w:bookmarkEnd">>
COMMENT_DOC_TAGS == <<"w:commentRangeStart", "w:commentRangeEnd", "w:commentReference">>
CHANGE_TAGS == <<"w:ins", "w:del", "w:rPrChange", "w:pPrChange", "w:sectPrChange",
                 "w:tblPrChange", "w:trPrChange", "w:tcPrChange", "w:tblGridChange">>

\* the positions collect_w_ids visits: tag by tag, each in document order,
\* skipping a w:id that is missing, empty or not an integer
IndexedHits(els, tags) ==
  Concat([k \in DOMAIN tags |->
            Sorted({i \in DOMAIN els : /\ els[i].tag = tags[k]
                                        /\ getAttribute(els[i], "w:id") # ""
                                        /\ IsInt(getAttribute(els[i], "w:id"))})])

\* collect_w_ids: {id_int: [elements]}, elements as positions
collect_w_ids(els, tags) ==
  LET hits == IndexedHits(els, tags)
      keys == {IntOf(getAttribute(els[hits[j]], "w:id")) : j \in DOMAIN hits}
  IN [n \in keys |->
        SelectSeq(hits, LAMBDA i : IntOf(getAttribute(els[i], "w:id")) = n)]

(***************************************************************************)
(* A. ID deconfliction (ooxml_fixup.deconflict_ids).                       *)
(***************************************************************************)
ALL_TAGS == BOOKMARK_TAGS \o COMMENT_DOC_TAGS \o CHANGE_TAGS

\* set(id_map.keys())
Keys(id_map) == DOMAIN id_map

\* mutant: the colliding ids are served from the highest down
BuildRemap_Descending(ids, others1, others2, next_id) ==
  LET hit == Sorted({i \in ids : i \in others1 \/ i \in others2})
  IN [old \in Range(hit) |->
        next_id + Len(hit) - (CHOOSE k \in DOMAIN hit : hit[k] = old)]

\* mutant: only a collision with the second of the two other kinds counts
BuildRemap_SecondKindOnly(ids, others1, others2, next_id) ==
  LET hit == Sorted({i \in ids : i \in others2})
  IN [old \in Range(hit) |->
        next_id + (CHOOSE k \in DOMAIN hit : hit[k] = old) - 1]

\* mutant: only a collision with the first of the two other kinds counts
BuildRemap_FirstKindOnly(ids, others1, others2, next_id) ==
  LET hit == Sorted({i \in ids : i \in others1})
  IN [old \in Range(hit) |->
        next_id + (CHOOSE k \in DOMAIN hit : hit[k] = old) - 1]

\* for old_id in sorted(ids): if collides: remap[old_id] = next_id; next_id += 1
BuildRemap(ids, others1, others2, next_id) ==
  LET hit == Sorted({i \in ids : i \in others1 \/ i \in others2})
  IN [old \in Range(hit) |->
        next_id + (CHOOSE k \in DOMAIN hit : hit[k] = old) - 1]

\* mutant: only the first node of a remapped id is rewritten
RenumberDoc_FirstNodeOnly(els, id_map, remap) ==
  [i \in DOMAIN els |->
     IF \E old \in DOMAIN remap : old \in DOMAIN id_map /\ i = id_map[old][1]
     THEN LET old == CHOOSE o \in DOMAIN remap :
                        o \in DOMAIN id_map /\ i = id_map[o][1]
          IN setAttribute(els[i], "w:id", Str(remap[old]))
     ELSE els[i]]

\* for old_id, new_id in remap.items(): for tag, el in id_map[old_id]:
\*     el.setAttribute("w:id", str(new_id))
RenumberDoc(els, id_map, remap) ==
  [i \in DOMAIN els |->
     IF \E old \in DOMAIN remap : old \in DOMAIN id_map /\ i \in Range(id_map[old])
     THEN LET old == CHOOSE o \in DOMAIN remap :
                        o \in DOMAIN id_map /\ i \in Range(id_map[o])
          IN setAttribute(els[i], "w:id", Str(remap[old]))
     ELSE els[i]]

\* summary[...] += 1 once per element rewritten
RenumberCount(id_map, remap) ==
  SumSeq([k \in 1..Cardinality(DOMAIN remap) |->
            LET old == SetToSeq(DOMAIN remap)[k]
            IN IF old \in DOMAIN id_map THEN Len(id_map[old]) ELSE 0])

\* mutant: the w:id of a w:comment is looked up without int(); a string is
\* never a key of the remap, so no entry is rewritten
RenumberComments_Unparsed(els, remap) == [i \in DOMAIN els |-> els[i]]

\* the w:comment loop over comments.xml
RenumberComments(els, remap) ==
  [i \in DOMAIN els |->
     LET val == getAttribute(els[i], "w:id")
     IN IF /\ els[i].tag = "w:comment"
           /\ val # ""
           /\ IsInt(val)
           /\ IntOf(val) \in DOMAIN remap
        THEN setAttribute(els[i], "w:id", Str(remap[IntOf(val)]))
        ELSE els[i]]

ZeroIds == [comments_renumbered |-> 0, changes_renumbered |-> 0]

\* mutant: the mirroring step does not ask whether comments.xml was parsed
MirrorsComments_Unchecked(p, comment_id_remap) == DOMAIN comment_id_remap # {}

\* `if comments_doc and comment_id_remap`: comments.xml exists, parsed, and a
\* comment id was remapped
MirrorsComments(p, comment_id_remap) ==
  /\ exists(p, CommentsPath)
  /\ parse_ok(p, CommentsPath)
  /\ DOMAIN comment_id_remap # {}

deconflict_ids(p) ==
  IF ~parse_ok(p, DocPath)
  THEN [pkg |-> p, summary |-> ZeroIds, writes |-> <<>>]
  ELSE
  LET els == p[DocPath].els
      all_ids == collect_w_ids(els, ALL_TAGS)
      bookmark_ids == collect_w_ids(els, BOOKMARK_TAGS)
      comment_doc_ids == collect_w_ids(els, COMMENT_DOC_TAGS)
      change_ids == collect_w_ids(els, CHANGE_TAGS)
      all_id_values == Keys(all_ids)
      bookmark_id_set == Keys(bookmark_ids)
      comment_id_set == Keys(comment_doc_ids)
      change_id_set == Keys(change_ids)
      has_collision == \/ bookmark_id_set \cap comment_id_set # {}
                       \/ bookmark_id_set \cap change_id_set # {}
                       \/ comment_id_set \cap change_id_set # {}
  IN IF all_id_values = {} \/ ~has_collision
     THEN [pkg |-> p, summary |-> ZeroIds, writes |-> <<>>]
     ELSE
     LET max_id == Max(all_id_values)
         comment_id_remap ==
           BuildRemap(comment_id_set, bookmark_id_set, change_id_set, max_id + 1)
         next_id == max_id + 1 + Cardinality(DOMAIN comment_id_remap)
         els1 == RenumberDoc(els, comment_doc_ids, comment_id_remap)
         mirror == MirrorsComments(p, comment_id_remap)
         cels == IF mirror
                 THEN RenumberComments(p[CommentsPath].els, comment_id_remap)
                 ELSE p[CommentsPath].els
         change_id_remap ==
           BuildRemap(change_id_set, bookmark_id_set, comment_id_set, next_id)
         els2 == RenumberDoc(els1, change_ids, change_id_remap)
     IN [pkg |-> [p EXCEPT ![DocPath].els = els2, ![CommentsPath].els = cels],
         summary |-> [comments_renumbered |->
                        RenumberCount(comment_doc_ids, comment_id_remap),
                      changes_renumbered |->
                        RenumberCount(change_ids, change_id_remap)],
         writes |-> IF mirror THEN <<DocPath, CommentsPath>> ELSE <<DocPath>>]

(***************************************************************************)
(* B. Deduplicate relationships (ooxml_fixup.dedup_relationships).         *)
(***************************************************************************)
\* the key of a manifest entry: the values of its key attributes
KeyOf(el, key_attrs) == [k \in DOMAIN key_attrs |-> getAttribute(el, key_attrs[k])]

\* el.getAttribute("PartName")
PartNameKey == <<"PartName">>

\* el.getAttribute("Extension")
ExtensionKey == <<"Extension">>

\* (el.getAttribute("Type"), el.getAttribute("Target"))
TypeTargetKey == <<"Type", "Target">>

\* mutant: the last element of a key survives instead of the first
DupPositions_KeepLast(els, tag, key_attrs) ==
  LET idx == get_elements_by_tag(els, tag)
  IN {idx[j] : j \in {j \in DOMAIN idx :
                        \E k \in (j + 1)..Len(idx) :
                           KeyOf(els[idx[k]], key_attrs) = KeyOf(els[idx[j]], key_attrs)}}

\* one "seen" loop: the positions of the elements of `tag` whose key is that
\* of an earlier element of `tag`
DupPositions(els, tag, key_attrs) ==
  LET idx == get_elements_by_tag(els, tag)
  IN {idx[j] : j \in {j \in DOMAIN idx :
                        \E k \in 1..(j - 1) :
                           KeyOf(els[idx[k]], key_attrs) = KeyOf(els[idx[j]], key_attrs)}}

\* the removals in [Content_Types].xml: Override by PartName, then Default
\* by Extension
CtRemovals(p) ==
  IF exists(p, CtPath) /\ parse_ok(p, CtPath)
  THEN DupPositions(p[CtPath].els, "Override", PartNameKey)
         \cup DupPositions(p[CtPath].els, "Default", ExtensionKey)
  ELSE {}

\* unpacked_dir.rglob("*.rels"), unparseable files skipped
RelsFound(p) == {f \in RelsPaths : exists(p, f) /\ parse_ok(p, f)}

RelsRemovals(p, f) == DupPositions(p[f].els, "Relationship", TypeTargetKey)

dedup_relationships(p) ==
  LET ct == CtRemovals(p)
      dirty == {f \in RelsFound(p) : Cardinality(RelsRemovals(p, f)) > 0}
      order == SelectSeq(RelsOrder, LAMBDA f : f \in dirty)
  IN [pkg |-> [path \in Paths |->
                 IF path = CtPath /\ Cardinality(ct) > 0
                 THEN [p[path] EXCEPT !.els = Without(p[path].els, ct)]
                 ELSE IF path \in dirty
                 THEN [p[path] EXCEPT !.els = Without(p[path].els, RelsRemovals(p, path))]
                 ELSE p[path]],
      summary |-> [content_types_removed |-> Cardinality(ct),
                   rels_removed |->
                     SumSeq([k \in DOMAIN order |->
                               Cardinality(RelsRemovals(p, order[k]))])],
      writes |-> (IF Cardinality(ct) > 0 THEN <<CtPath>> ELSE <<>>) \o order]

(***************************************************************************)
(* C. Clean orphaned comment artifacts                                     *)
(* (ooxml_fixup.clean_orphaned_comments).                                  *)
(***************************************************************************)
\* p_el.getAttribute("w14:paraId") or p_el.getAttribute("w:paraId")
ParaIdOf(p_el) ==
  IF getAttribute(p_el, "w14:paraId") # ""
  THEN getAttribute(p_el, "w14:paraId")
  ELSE getAttribute(p_el, "w:paraId")

\* the non-empty paraIds of the w:p paragraphs inside the w:comment entries
CommentParaIds(els) ==
  UNION {{ParaIdOf(els[i].kids[j]) :
            j \in {j \in DOMAIN els[i].kids : els[i].kids[j].tag = "w:p"}} :
           i \in {i \in DOMAIN els : els[i].tag = "w:comment"}} \ {""}

\* mutant: an entry without the key attribute counts as an orphan too
OrphanPositions_EmptyKeyToo(els, tag, attr, valid) ==
  {i \in DOMAIN els : /\ els[i].tag = tag
                      /\ getAttribute(els[i], attr) \notin valid}

\* the entries of `tag` an orphan loop removes: a non-empty key not in valid
OrphanPositions(els, tag, attr, valid) ==
  {i \in DOMAIN els : /\ els[i].tag = tag
                      /\ getAttribute(els[i], attr) # ""
                      /\ getAttribute(els[i], attr) \notin valid}

Readable(p, path) == exists(p, path) /\ parse_ok(p, path)

ExtRemovals(p, valid_para_ids) ==
  IF Readable(p, ExtPath)
  THEN OrphanPositions(p[ExtPath].els, "w15:commentEx", "w15:paraId", valid_para_ids)
  ELSE {}

\* the w15:durableId values of the commentEx entries with a valid paraId
DurableIdsFromValid(p, valid_para_ids) ==
  IF Readable(p, ExtPath)
  THEN {getAttribute(p[ExtPath].els[i], "w15:durableId") :
          i \in {i \in DOMAIN p[ExtPath].els :
                   /\ p[ExtPath].els[i].tag = "w15:commentEx"
                   /\ getAttribute(p[ExtPath].els[i], "w15:paraId") # ""
                   /\ getAttribute(p[ExtPath].els[i], "w15:paraId") \in valid_para_ids}}
         \ {""}
  ELSE {}

\* mutant: commentsIds is searched with the attribute name of commentsExtended
IdsRemovals_WrongAttr(p, valid_para_ids) ==
  IF Readable(p, IdsPath)
  THEN OrphanPositions(p[IdsPath].els, "w16cid:commentId", "w15:paraId", valid_para_ids)
  ELSE {}

IdsRemovals(p, valid_para_ids) ==
  IF Readable(p, IdsPath)
  THEN OrphanPositions(p[IdsPath].els, "w16cid:commentId", "w16cid:paraId", valid_para_ids)
  ELSE {}

\* mutant: an empty valid-durableId set does not stop the removals
ExtensibleRemovals_NoEmptyTest(p, durable_ids_from_valid) ==
  IF Readable(p, ExtensiblePath)
  THEN OrphanPositions(p[ExtensiblePath].els, "w16cex:commentExtensible",
                       "w16cex:durableId", durable_ids_from_valid)
  ELSE {}

ExtensibleRemovals(p, durable_ids_from_valid) ==
  IF Readable(p, ExtensiblePath) /\ durable_ids_from_valid # {}
  THEN OrphanPositions(p[ExtensiblePath].els, "w16cex:commentExtensible",
                       "w16cex:durableId", durable_ids_from_valid)
  ELSE {}

ZeroOrphans == [orphans_removed |-> 0]

clean_orphaned_comments(p) ==
  IF ~Readable(p, CommentsPath)
  THEN [pkg |-> p, summary |-> ZeroOrphans, writes |-> <<>>]
  ELSE
  LET valid_para_ids == CommentParaIds(p[CommentsPath].els)
      rm == [path \in {ExtPath, IdsPath, ExtensiblePath} |->
               IF path = ExtPath THEN ExtRemovals(p, valid_para_ids)
               ELSE IF path = IdsPath THEN IdsRemovals(p, valid_para_ids)
               ELSE ExtensibleRemovals(p, DurableIdsFromValid(p, valid_para_ids))]
      order == SelectSeq(<<ExtPath, IdsPath, ExtensiblePath>>,
                         LAMBDA path : Cardinality(rm[path]) > 0)
  IN [pkg |-> [path \in Paths |->
                 IF path \in DOMAIN rm /\ Cardinality(rm[path]) > 0
                 THEN [p[path] EXCEPT !.els = Without(p[path].els, rm[path])]
                 ELSE p[path]],
      summary |-> [orphans_removed |->
                     SumSeq([k \in DOMAIN order |-> Cardinality(rm[order[k]])])],
      writes |-> order]

(***************************************************************************)
(* D. Fix xml:space="preserve" (ooxml_fixup.fix_xml_space).                *)
(***************************************************************************)
Whitespace == {" ", "\t", "\n"}

RECURSIVE lstrip(_)
lstrip(text) == IF text # <<>> /\ Head(text) \in Whitespace
                THEN lstrip(Tail(text)) ELSE text

RECURSIVE rstrip(_)
rstrip(text) == IF text # <<>> /\ text[Len(text)] \in Whitespace
                THEN rstrip(SubSeq(text, 1, Len(text) - 1)) ELSE text

\* str.strip()
strip(text) == rstrip(lstrip(text))

\* mutant: the xml:space attribute already present is not looked at
NeedsSpace_IgnoresMarker(el) ==
  /\ el.tag = "w:t"
  /\ el.text # <<>>
  /\ el.text # strip(el.text)

\* the w:t elements both fix_xml_space and check_xml_space single out:
\* non-empty text with leading or trailing whitespace and a falsy xml:space
NeedsSpace(el) ==
  /\ el.tag = "w:t"
  /\ el.text # <<>>
  /\ el.text # strip(el.text)
  /\ getAttribute(el, "xml:space") = ""

ZeroSpace == [space_attrs_added |-> 0]

fix_xml_space(p) ==
  IF ~parse_ok(p, DocPath)
  THEN [pkg |-> p, summary |-> ZeroSpace, writes |-> <<>>]
  ELSE
  LET els == p[DocPath].els
      hit == {i \in DOMAIN els : NeedsSpace(els[i])}
      modified == hit # {}
  IN [pkg |-> [p EXCEPT ![DocPath].els =
                 [i \in DOMAIN els |->
                    IF i \in hit THEN setAttribute(els[i], "xml:space", "preserve")
                    ELSE els[i]]],
      summary |-> [space_attrs_added |-> Cardinality(hit)],
      writes |-> IF modified THEN <<DocPath>> ELSE <<>>]

(***************************************************************************)
(* The validator (ooxml_validate.py).  Every check returns its list of     *)
(* issue records; a loop over a Python set reports in an order the         *)
(* language leaves open, modelled by one fixed order.                      *)
(***************************************************************************)
ANNOTATION_TAGS ==
  <<"w:bookmarkStart", "w:bookmarkEnd",
    "w:commentRangeStart", "w:commentRangeEnd", "w:commentReference",
    "w:ins", "w:del", "w:rPrChange", "w:pPrChange", "w:sectPrChange",
    "w:tblPrChange", "w:trPrChange", "w:tcPrChange", "w:tblGridChange">>

\* the first occurrences of the values of s, in order
RECURSIVE Distinct(_)
Distinct(s) ==
  IF s = <<>> THEN <<>>
  ELSE LET r == Distinct(SubSeq(s, 1, Len(s) - 1))
       IN IF s[Len(s)] \in Range(r) THEN r ELSE Append(r, s[Len(s)])

\* the annotation type check_unique_ids assigns to a tag
TypeOfTag(t) ==
  IF t \in {"w:bookmarkStart", "w:bookmarkEnd"} THEN "bookmark"
  ELSE IF t \in {"w:commentRangeStart", "w:commentRangeEnd", "w:commentReference"}
  THEN "comment"
  ELSE "change"

check_unique_ids(p) ==
  IF ~parse_ok(p, DocPath) THEN <<>>
  ELSE
  LET els == p[DocPath].els
      \* the (val, tag) pairs in the order seen[val].append(tag) runs
      visits == Concat([k \in DOMAIN ANNOTATION_TAGS |->
                  LET idx == Sorted({i \in DOMAIN els :
                               /\ els[i].tag = ANNOTATION_TAGS[k]
                               /\ getAttribute(els[i], "w:id") # ""})
                  IN [j \in DOMAIN idx |->
                        [val |-> getAttribute(els[idx[j]], "w:id"),
                         tag |-> els[idx[j]].tag]]])
      keys == Distinct([j \in DOMAIN visits |-> visits[j].val])
      tagsOf(v) == LET mine == SelectSeq(visits, LAMBDA x : x.val = v)
                   IN [j \in DOMAIN mine |-> mine[j].tag]
      bad == SelectSeq(keys, LAMBDA v :
               /\ Len(tagsOf(v)) > 1
               /\ Cardinality({TypeOfTag(t) : t \in Range(tagsOf(v))}) > 1)
  IN [j \in DOMAIN bad |->
        [check |-> "unique_ids", id |-> bad[j], tags |-> tagsOf(bad[j])]]

\* the non-empty w:id values on the elements of `tag`
IdStrings(els, tag) ==
  {getAttribute(els[i], "w:id") : i \in {i \in DOMAIN els : els[i].tag = tag}} \ {""}

Issues(check, field, S, message) ==
  LET o == SetToSeq(S)
  IN [j \in DOMAIN o |->
        [check |-> check, key |-> field, value |-> o[j], message |-> message]]

\* mutant: the loop over refs - starts is missing
check_comment_consistency_NoRefLoop(p) ==
  IF ~parse_ok(p, DocPath) THEN <<>>
  ELSE
  LET els == p[DocPath].els
      starts == IdStrings(els, "w:commentRangeStart")
      ends == IdStrings(els, "w:commentRangeEnd")
      refs == IdStrings(els, "w:commentReference")
  IN Issues("comment_consistency", "id", starts \ ends,
            "commentRangeStart has no matching commentRangeEnd")
       \o Issues("comment_consistency", "id", starts \ refs,
                 "commentRangeStart has no matching commentReference")
       \o Issues("comment_consistency", "id", ends \ starts,
                 "commentRangeEnd has no matching commentRangeStart")

check_comment_consistency(p) ==
  IF ~parse_ok(p, DocPath) THEN <<>>
  ELSE
  LET els == p[DocPath].els
      starts == IdStrings(els, "w:commentRangeStart")
      ends == IdStrings(els, "w:commentRangeEnd")
      refs == IdStrings(els, "w:commentReference")
  IN Issues("comment_consistency", "id", starts \ ends,
            "commentRangeStart has no matching commentRangeEnd")
       \o Issues("comment_consistency", "id", starts \ refs,
                 "commentRangeStart has no matching commentReference")
       \o Issues("comment_consistency", "id", ends \ starts,
                 "commentRangeEnd has no matching commentRangeStart")
       \o Issues("comment_consistency", "id", refs \ starts,
                 "commentReference has no matching commentRangeStart")

\* the non-empty values of attr on the entries of `tag` of a metadata part;
\* empty when the part is missing or does not parse
MetaParaIds(p, path, tag, attr) ==
  IF Readable(p, path)
  THEN {getAttribute(p[path].els[i], attr) :
          i \in {i \in DOMAIN p[path].els : p[path].els[i].tag = tag}} \ {""}
  ELSE {}

\* mutant: the reverse direction is reported for an absent part too
check_comment_artifacts_NoExistsTest(p) ==
  IF ~Readable(p, CommentsPath) THEN <<>>
  ELSE
  LET comment_para_ids == CommentParaIds(p[CommentsPath].els)
      ext_para_ids == MetaParaIds(p, ExtPath, "w15:commentEx", "w15:paraId")
      ids_para_ids == MetaParaIds(p, IdsPath, "w16cid:commentId", "w16cid:paraId")
  IN Issues("comment_artifacts", "paraId", ext_para_ids \ comment_para_ids,
            "commentsExtended has paraId with no matching w:comment")
       \o Issues("comment_artifacts", "paraId", ids_para_ids \ comment_para_ids,
                 "commentsIds has paraId with no matching w:comment")
       \o Issues("comment_artifacts", "paraId", comment_para_ids \ ext_para_ids,
                 "w:comment paraId missing from commentsExtended")
       \o Issues("comment_artifacts", "paraId", comment_para_ids \ ids_para_ids,
                 "w:comment paraId missing from commentsIds")

check_comment_artifacts(p) ==
  IF ~Readable(p, CommentsPath) THEN <<>>
  ELSE
  LET comment_para_ids == CommentParaIds(p[CommentsPath].els)
      ext_para_ids == MetaParaIds(p, ExtPath, "w15:commentEx", "w15:paraId")
      ids_para_ids == MetaParaIds(p, IdsPath, "w16cid:commentId", "w16cid:paraId")
  IN Issues("comment_artifacts", "paraId", ext_para_ids \ comment_para_ids,
            "commentsExtended has paraId with no matching w:comment")
       \o Issues("comment_artifacts", "paraId", ids_para_ids \ comment_para_ids,
                 "commentsIds has paraId with no matching w:comment")
       \o (IF exists(p, ExtPath)
           THEN Issues("comment_artifacts", "paraId", comment_para_ids \ ext_para_ids,
                       "w:comment paraId missing from commentsExtended")
           ELSE <<>>)
       \o (IF exists(p, IdsPath)
           THEN Issues("comment_artifacts", "paraId", comment_para_ids \ ids_para_ids,
                       "w:comment paraId missing from commentsIds")
           ELSE <<>>)

\* mutant: a key is compared with the key of the element just before only
DupIssues_AdjacentOnly(els, file, tag, key_attrs) ==
  LET idx == get_elements_by_tag(els, tag)
      dup == SelectSeq(idx, LAMBDA i :
               \E k \in DOMAIN idx :
                  /\ idx[k] < i
                  /\ \A j \in DOMAIN idx : ~(idx[k] < idx[j] /\ idx[j] < i)
                  /\ KeyOf(els[idx[k]], key_attrs) = KeyOf(els[i], key_attrs))
  IN [j \in DOMAIN dup |->
        [check |-> "duplicate_entries", file |-> file,
         message |-> <<"Duplicate", tag>> \o KeyOf(els[dup[j]], key_attrs)]]

\* one issue per element whose key was seen on an earlier element of `tag`
DupIssues(els, file, tag, key_attrs) ==
  LET idx == get_elements_by_tag(els, tag)
      dup == SelectSeq(idx, LAMBDA i :
               \E k \in DOMAIN idx :
                  idx[k] < i /\ KeyOf(els[idx[k]], key_attrs) = KeyOf(els[i], key_attrs))
  IN [j \in DOMAIN dup |->
        [check |-> "duplicate_entries", file |-> file,
         message |-> <<"Duplicate", tag>> \o KeyOf(els[dup[j]], key_attrs)]]

check_duplicate_entries(p) ==
  LET rels == SetToSeq(RelsFound(p))
  IN (IF Readable(p, CtPath)
      THEN DupIssues(p[CtPath].els, CtPath, "Override", PartNameKey)
             \o DupIssues(p[CtPath].els, CtPath, "Default", ExtensionKey)
      ELSE <<>>)
       \o Concat([k \in DOMAIN rels |->
                    DupIssues(p[rels[k]].els, rels[k], "Relationship", TypeTargetKey)])

\* text[:30].replace("\n", "\\n")
Preview(text) ==
  LET cut == SubSeq(text, 1, IF Len(text) < 30 THEN Len(text) ELSE 30)
  IN [i \in DOMAIN cut |-> IF cut[i] = "\n" THEN "\\n" ELSE cut[i]]

\* mutant: an xml:space attribute already present does not silence the check
check_xml_space_IgnoresMarker(p) ==
  IF ~parse_ok(p, DocPath) THEN <<>>
  ELSE
  LET els == p[DocPath].els
      hit == Sorted({i \in DOMAIN els : NeedsSpace_IgnoresMarker(els[i])})
  IN [j \in DOMAIN hit |->
        [check |-> "xml_space", text_preview |-> Preview(els[hit[j]].text)]]

check_xml_space(p) ==
  IF ~parse_ok(p, DocPath) THEN <<>>
  ELSE
  LET els == p[DocPath].els
      hit == Sorted({i \in DOMAIN els : NeedsSpace(els[i])})
  IN [j \in DOMAIN hit |->
        [check |-> "xml_space", text_preview |-> Preview(els[hit[j]].text)]]

\* mutant: the last extend() call is missing
all_issues_WithoutXmlSpace(p) ==
  check_unique_ids(p) \o check_comment_consistency(p) \o check_comment_artifacts(p)
    \o check_duplicate_entries(p)

\* all_issues after the five extend() calls of main
all_issues(p) ==
  check_unique_ids(p) \o check_comment_consistency(p) \o check_comment_artifacts(p)
    \o check_duplicate_entries(p) \o check_xml_space(p)

\* the report main prints and the status it exits with
validate_main(p) ==
  LET issues == all_issues(p)
  IN IF issues # <<>>
     THEN [status |-> "FAIL", issue_count |-> Len(issues), issues |-> issues,
           exit |-> 1]
     ELSE [status |-> "PASS", issue_count |-> 0, exit |-> 0]

(***************************************************************************)
(* The state machine.  todo is the list of steps the driver still has to   *)
(* run; log records, per phase run, its summary, the parts it wrote (in    *)
(* order) and the parts whose content it changed.                          *)
(***************************************************************************)
Changed(p, q) == {path \in Paths : p[path] # q[path]}

LogEntry(phase, p, r) ==
  [phase |-> phase, summary |-> r.summary, writes |-> r.writes,
   changed |-> Changed(p, r.pkg)]

NoVerdict == [status |-> "none"]

NoMem == [x \in {} |-> 0]

At(step) == todo # <<>> /\ Head(todo) = step

\* mutant: a document that does not parse ends the invocation in the phase
DeconflictIds_Aborts ==
  /\ At("deconflict_ids")
  /\ IF parse_ok(pkg, DocPath)
     THEN LET r == deconflict_ids(pkg)
          IN /\ pkg' = r.pkg
             /\ log' = Append(log, LogEntry("deconflict_ids", pkg, r))
             /\ todo' = Tail(todo)
     ELSE /\ todo' = <<>>
          /\ UNCHANGED <<pkg, log>>
  /\ UNCHANGED <<verdict, mem, pkg0>>

DeconflictIds ==
  /\ At("deconflict_ids")
  /\ LET r == deconflict_ids(pkg)
     IN /\ pkg' = r.pkg
        /\ log' = Append(log, LogEntry("deconflict_ids", pkg, r))
  /\ todo' = Tail(todo)
  /\ UNCHANGED <<verdict, mem, pkg0>>

DedupRelationships ==
  /\ At("dedup_relationships")
  /\ LET r == dedup_relationships(pkg)
     IN /\ pkg' = r.pkg
        /\ log' = Append(log, LogEntry("dedup_relationships", pkg, r))
  /\ todo' = Tail(todo)
  /\ UNCHANGED <<verdict, mem, pkg0>>

CleanOrphanedComments ==
  /\ At("clean_orphaned_comments")
  /\ LET r == clean_orphaned_comments(pkg)
     IN /\ pkg' = r.pkg
        /\ log' = Append(log, LogEntry("clean_orphaned_comments", pkg, r))
  /\ todo' = Tail(todo)
  /\ UNCHANGED <<verdict, mem, pkg0>>

\* mutant: the phase works on the document as it was at the start instead of
\* reloading it
FixXmlSpace_StaleDocument ==
  /\ At("fix_xml_space")
  /\ LET r == fix_xml_space([pkg EXCEPT ![DocPath] = pkg0[DocPath]])
     IN /\ pkg' = (IF r.writes # <<>> THEN r.pkg ELSE pkg)
        /\ log' = Append(log, LogEntry("fix_xml_space", pkg, r))
  /\ todo' = Tail(todo)
  /\ UNCHANGED <<verdict, mem, pkg0>>

FixXmlSpace ==
  /\ At("fix_xml_space")
  /\ LET r == fix_xml_space(pkg)
     IN /\ pkg' = r.pkg
        /\ log' = Append(log, LogEntry("fix_xml_space", pkg, r))
  /\ todo' = Tail(todo)
  /\ UNCHANGED <<verdict, mem, pkg0>>

PhaseNames == {"deconflict_ids", "dedup_relationships", "clean_orphaned_comments",
               "fix_xml_space"}

\* sum(v for section in results.values() for v in section.values()) over the
\* four phase summaries of this invocation
total_changes(entries) ==
  SumSeq([k \in DOMAIN entries |->
            LET sm == entries[k].summary
                f == SetToSeq(DOMAIN sm)
            IN SumSeq([j \in DOMAIN f |-> sm[f[j]]])])

\* the end of ooxml_fixup.main: the grand total over this invocation's phases
Report ==
  /\ At("report")
  /\ Len(log) >= 4
  /\ log' = Append(log, [phase |-> "main",
                         summary |-> [total_changes |->
                            total_changes(SubSeq(log, Len(log) - 3, Len(log)))],
                         writes |-> <<>>, changed |-> {}])
  /\ todo' = Tail(todo)
  /\ UNCHANGED <<pkg, verdict, mem, pkg0>>

\* mutant: the validator adds the missing xml:space markers itself
Validate_Repairs ==
  /\ At("validate")
  /\ verdict' = validate_main(pkg)
  /\ pkg' = fix_xml_space(pkg).pkg
  /\ todo' = Tail(todo)
  /\ UNCHANGED <<log, mem, pkg0>>

\* ooxml_validate.main: the five checks, then the verdict
Validate ==
  /\ At("validate")
  /\ verdict' = validate_main(pkg)
  /\ todo' = Tail(todo)
  /\ UNCHANGED <<pkg, log, mem, pkg0>>

\* the results dict of ooxml_fixup.main before total_changes is added: the
\* summary of each phase
main_results(p) ==
  LET a == deconflict_ids(p)
      b == dedup_relationships(a.pkg)
      c == clean_orphaned_comments(b.pkg)
      d == fix_xml_space(c.pkg)
  IN [ph \in PhaseNames |->
        IF ph = "deconflict_ids" THEN a.summary
        ELSE IF ph = "dedup_relationships" THEN b.summary
        ELSE IF ph = "clean_orphaned_comments" THEN c.summary
        ELSE d.summary]

\* the four phases in the order of ooxml_fixup.main, each on the package the
\* one before left
main(p) ==
  fix_xml_space(
    clean_orphaned_comments(
      dedup_relationships(deconflict_ids(p).pkg).pkg).pkg).pkg

(***************************************************************************)
(* The phases run in parallel, each as its sequence of whole-file loads    *)
(* and whole-file writes.  mem.ctl[ph] is the position of phase ph: the    *)
(* number of parts it has loaded, the number it has written, and snap, the *)
(* parts as it loaded them.  mem.writers records which phases wrote a      *)
(* part, mem.raced whether deconflict_ids and fix_xml_space overlapped.    *)
(***************************************************************************)
\* a phase that has parsed no part yet
NothingLoaded == [path \in Paths |-> Absent]

\* the parts a phase parses, in the order of its parse_xml calls
LoadOrder(ph) ==
  IF ph = "deconflict_ids" THEN <<DocPath, CommentsPath>>
  ELSE IF ph = "dedup_relationships" THEN <<CtPath>> \o RelsOrder
  ELSE IF ph = "clean_orphaned_comments"
  THEN <<CommentsPath, ExtPath, IdsPath, ExtensiblePath>>
  ELSE <<DocPath>>

\* what the phase computes from the parts it holds in memory
PhaseResult(ph, snap) ==
  IF ph = "deconflict_ids" THEN deconflict_ids(snap)
  ELSE IF ph = "dedup_relationships" THEN dedup_relationships(snap)
  ELSE IF ph = "clean_orphaned_comments" THEN clean_orphaned_comments(snap)
  ELSE fix_xml_space(snap)

\* the early returns that come before a later load: deconflict_ids on an
\* unparseable document, no id or no collision; clean_orphaned_comments on a
\* missing or unparseable comments.xml
Returned(ph, c) ==
  \/ /\ ph = "deconflict_ids"
     /\ c.nload = 1
     /\ deconflict_ids(c.snap).writes = <<>>
  \/ /\ ph = "clean_orphaned_comments"
     /\ c.nload = 1
     /\ ~Readable(c.snap, CommentsPath)

\* the write_xml calls the phase has reached: deconflict_ids writes after
\* both of its loads, the other phases right after the load of the part
WritesDue(ph, c) ==
  IF ph = "deconflict_ids" /\ c.nload < 2 THEN <<>>
  ELSE PhaseResult(ph, c.snap).writes

CanWrite(ph) == mem.ctl[ph].nwrite < Len(WritesDue(ph, mem.ctl[ph]))

CanLoad(ph) ==
  /\ ~CanWrite(ph)
  /\ ~Returned(ph, mem.ctl[ph])
  /\ mem.ctl[ph].nload < Len(LoadOrder(ph))

Finished(ph) == ~CanWrite(ph) /\ ~CanLoad(ph)

Active(ph) == mem.ctl[ph].nload > 0 /\ ~Finished(ph)

\* the other phase that loads and writes word/document.xml
DocRival(ph) ==
  IF ph = "deconflict_ids" THEN {"fix_xml_space"}
  ELSE IF ph = "fix_xml_space" THEN {"deconflict_ids"}
  ELSE {}

\* mutant: the phase is handed the part as it was when the program started
parse_xml_Cached(path) == pkg0[path]

\* parse_xml: the part as the file holds it when the call is made
parse_xml(path) == pkg[path]

\* write_xml: the whole file is overwritten by the document in memory
write_xml(p, path, part) == [p EXCEPT ![path] = part]

Load(ph) ==
  /\ CanLoad(ph)
  /\ LET c == mem.ctl[ph]
         path == LoadOrder(ph)[c.nload + 1]
     IN mem' = [mem EXCEPT
                  !.ctl[ph] = [c EXCEPT !.nload = @ + 1,
                                        !.snap[path] = parse_xml(path)],
                  !.raced = @ \/ \E other \in DocRival(ph) : Active(other)]
  /\ UNCHANGED <<pkg, todo, log, verdict, pkg0>>

Write(ph) ==
  /\ CanWrite(ph)
  /\ LET c == mem.ctl[ph]
         path == WritesDue(ph, c)[c.nwrite + 1]
     IN /\ pkg' = write_xml(pkg, path, PhaseResult(ph, c.snap).pkg[path])
        /\ mem' = [mem EXCEPT !.ctl[ph].nwrite = @ + 1,
                              !.writers[path] = @ \cup {ph}]
  /\ UNCHANGED <<todo, log, verdict, pkg0>>

DeconflictLoad == Load("deconflict_ids")

DeconflictWrite == Write("deconflict_ids")

DedupLoad == Load("dedup_relationships")

DedupWrite == Write("dedup_relationships")

CleanLoad == Load("clean_orphaned_comments")

CleanWrite == Write("clean_orphaned_comments")

SpaceLoad == Load("fix_xml_space")

SpaceWrite == Write("fix_xml_space")

(***************************************************************************)
(* Write failures.  write_xml raises when the file cannot be written; no   *)
(* phase and not main has a handler, so the exception ends the invocation. *)
(* mem.budget is the number of writes that succeed before the one that     *)
(* fails, mem.failed whether a write has failed.  The file of the failed   *)
(* write is left as it was (it could not be opened) or truncated.          *)
(***************************************************************************)
\* p after the first n writes of the phase result r
AfterWrites(p, r, n) ==
  [path \in Paths |->
     IF \E k \in 1..n : r.writes[k] = path THEN r.pkg[path] ELSE p[path]]

\* what a failed write_bytes can leave of the file
FailedWriteLeaves(part) == {part, Bad}

\* mutant: the phase swallows the exception of write_xml and returns its summary
RunPhase_CatchesError(ph) ==
  /\ At(ph)
  /\ LET r == PhaseResult(ph, pkg)
         n == Len(r.writes)
     IN IF mem.budget >= n
        THEN /\ pkg' = r.pkg
             /\ log' = Append(log, LogEntry(ph, pkg, r))
             /\ mem' = [mem EXCEPT !.budget = @ - n]
        ELSE \E left \in FailedWriteLeaves(pkg[r.writes[mem.budget + 1]]) :
               /\ pkg' = [AfterWrites(pkg, r, mem.budget) EXCEPT
                            ![r.writes[mem.budget + 1]] = left]
               /\ log' = Append(log, LogEntry(ph, pkg, r))
               /\ mem' = [budget |-> MaxGoodWrites, failed |-> TRUE]
  /\ todo' = Tail(todo)
  /\ UNCHANGED <<verdict, pkg0>>

\* one phase called by main: its writes succeed while the budget lasts; the
\* write that fails raises out of the phase and out of main
RunPhase(ph) ==
  /\ At(ph)
  /\ LET r == PhaseResult(ph, pkg)
         n == Len(r.writes)
     IN IF mem.budget >= n
        THEN /\ pkg' = r.pkg
             /\ log' = Append(log, LogEntry(ph, pkg, r))
             /\ mem' = [mem EXCEPT !.budget = @ - n]
             /\ todo' = Tail(todo)
        ELSE \E left \in FailedWriteLeaves(pkg[r.writes[mem.budget + 1]]) :
               /\ pkg' = [AfterWrites(pkg, r, mem.budget) EXCEPT
                            ![r.writes[mem.budget + 1]] = left]
               /\ log' = Append(log, [phase |-> ph, raised |-> "OSError",
                                      writes |-> SubSeq(r.writes, 1, mem.budget)])
               /\ mem' = [budget |-> 0, failed |-> TRUE]
               /\ todo' = <<>>
  /\ UNCHANGED <<verdict, pkg0>>

DeconflictIdsRun == RunPhase("deconflict_ids")

DedupRelationshipsRun == RunPhase("dedup_relationships")

CleanOrphanedCommentsRun == RunPhase("clean_orphaned_comments")

FixXmlSpaceRun == RunPhase("fix_xml_space")

\* the order of the phases in ooxml_fixup.main
MainSteps == <<"deconflict_ids", "dedup_relationships", "clean_orphaned_comments",
               "fix_xml_space", "report">>

(***************************************************************************)
(* Input packages.  The order of the elements of a part enters no          *)
(* computation of the phases beyond the order of what they report, so a    *)
(* part is enumerated once per set of distinct elements, in a fixed order. *)
(***************************************************************************)
RECURSIVE Incr(_, _)
Incr(k, m) ==
  IF k = 0 THEN {<<>>}
  ELSE UNION {{Append(s, j) : j \in (IF s = <<>> THEN 1 ELSE s[Len(s)] + 1)..m} :
                s \in Incr(k - 1, m)}

\* the sequences of at most n distinct elements of opts, one per subset
UpTo(opts, n) ==
  LET o == SetToSeq(opts)
  IN UNION {{[i \in 1..k |-> o[f[i]]] : f \in Incr(k, Len(o))} : k \in 0..n}

WithId(tag, v) == El(tag, IF v = "" THEN NoAttrs ELSE ("w:id" :> v))

AnnTagsUsed == {"w:bookmarkStart", "w:bookmarkEnd", "w:commentRangeStart",
                "w:commentRangeEnd", "w:commentReference", "w:ins"}

\* every tag with the ids "1" and "2", and a few nodes whose w:id is spelled
\* with a leading zero, is not an integer, or is missing
AnnOpts ==
  {WithId(t, v) : t \in AnnTagsUsed, v \in {"1", "2"}}
    \cup {WithId("w:ins", "01"), WithId("w:commentRangeEnd", "01"),
          WithId("w:ins", "x"), WithId("w:bookmarkStart", "x"),
          WithId("w:ins", ""), WithId("w:commentReference", "")}


CommentIdOpts == {WithId("w:comment", v) : v \in {"1", "2", "3"}}

\* an attribute map that leaves out the attributes given as ""
Attr(name, v) == IF v = "" THEN NoAttrs ELSE (name :> v)

Override(part_name, content_type) ==
  El("Override", Attr("PartName", part_name) @@ Attr("ContentType", content_type))
Default(extension, content_type) ==
  El("Default", Attr("Extension", extension) @@ Attr("ContentType", content_type))
Relationship(id, type, target) ==
  El("Relationship", Attr("Id", id) @@ Attr("Type", type) @@ Attr("Target", target))
Para(w14, w) == El("w:p", Attr("w14:paraId", w14) @@ Attr("w:paraId", w))
Comment(id, paras) == [El("w:comment", Attr("w:id", id)) EXCEPT !.kids = paras]
CommentEx(para_id, durable_id) ==
  El("w15:commentEx", Attr("w15:paraId", para_id) @@ Attr("w15:durableId", durable_id))
CommentId(para_id) == El("w16cid:commentId", Attr("w16cid:paraId", para_id))
CommentExtensible(durable_id) ==
  El("w16cex:commentExtensible", Attr("w16cex:durableId", durable_id))
Wt(text, space) == [El("w:t", Attr("xml:space", space)) EXCEPT !.text = text]

\* the sequences of at most n elements of opts
SeqsUpTo(opts, n) == UNION {[1..k -> opts] : k \in 0..n}

PartsOf(contents) == {Absent, Bad} \cup {Ok(e) : e \in contents}

EmptyPkg == [path \in Paths |-> IF path = DocPath THEN Ok(<<>>) ELSE Absent]

(* deconflict_ids: document.xml annotations and the ids of comments.xml *)
IdsPackages ==
  {[EmptyPkg EXCEPT ![DocPath] = d, ![CommentsPath] = c] :
     d \in PartsOf(UpTo(AnnOpts, MaxAnn)),
     c \in PartsOf(UpTo(CommentIdOpts, MaxComments))}

(* dedup_relationships: the content-types manifest and two .rels files *)
\* entries that share a key differ in another attribute, so that which of
\* them survives shows
CtOpts == {Override("/word/document.xml", "A"), Override("/word/document.xml", "B"),
           Override("", "C"), Default("xml", "A"), Default("xml", "B")}

RelOpts == {Relationship("rId1", "T1", "a.xml"), Relationship("rId2", "T1", "a.xml"),
            Relationship("rId3", "T2", "a.xml"), Relationship("rId4", "", "")}

CtSamples == {Ok(<<Override("/word/document.xml", "A"), Default("xml", "A")>>),
              Ok(<<Default("xml", "A"), Override("/word/document.xml", "A"),
                   Override("/word/document.xml", "B"), Default("xml", "B")>>)}

RelsSamples == {Absent,
                Ok(<<Relationship("rId1", "T1", "a.xml")>>),
                Ok(<<Relationship("rId1", "T1", "a.xml"), Relationship("rId3", "T2", "a.xml"),
                     Relationship("rId2", "T1", "a.xml")>>)}

Manifests(n) ==
  {[f \in {CtPath} \cup RelsPaths |->
      IF f = CtPath THEN m[1] ELSE IF f = "_rels/.rels" THEN m[2] ELSE m[3]] :
     m \in (PartsOf(SeqsUpTo(CtOpts, n)) \X {Ok(<<Relationship("rId1", "T1", "a.xml")>>)}
              \X RelsSamples)
          \cup (CtSamples \X PartsOf(SeqsUpTo(RelOpts, n)) \X RelsSamples)}

WithParts(p, parts) == [path \in Paths |-> IF path \in DOMAIN parts THEN parts[path] ELSE p[path]]

DedupPackages == {WithParts(EmptyPkg, m) : m \in Manifests(MaxEntries)}

(* clean_orphaned_comments: comments.xml and the three metadata parts *)
CommentOpts == {Comment("1", <<Para("P1", "")>>), Comment("2", <<Para("", "P2")>>),
                Comment("3", <<>>), Comment("4", <<Para("P1", "P3")>>)}

ExOpts == {CommentEx("P1", "D1"), CommentEx("P2", ""), CommentEx("P9", "D9"),
           CommentEx("", "D9"), CommentEx("P3", "D3")}

IdOpts == {CommentId("P1"), CommentId("P9"), CommentId("")}

ExtensibleOpts == {CommentExtensible("D1"), CommentExtensible("D9"),
                   CommentExtensible("")}

CommentParts(nc, nm) ==
  {[f \in {CommentsPath, ExtPath, IdsPath, ExtensiblePath} |->
      IF f = CommentsPath THEN m[1] ELSE IF f = ExtPath THEN m[2]
      ELSE IF f = IdsPath THEN m[3] ELSE m[4]] :
     m \in PartsOf(UpTo(CommentOpts, nc)) \X PartsOf(UpTo(ExOpts, nm))
             \X PartsOf(UpTo(IdOpts, nm)) \X PartsOf(UpTo(ExtensibleOpts, nm))}

OrphanPackages == {WithParts(EmptyPkg, m) : m \in CommentParts(MaxComments, MaxMeta)}

(* fix_xml_space: the w:t runs of document.xml *)
WtOpts == {Wt(t, sp) : t \in {<<>>, <<"f">>, <<" ", "f">>, <<"f", "\n">>, <<" ">>,
                              <<"f", " ", "f">>},
                       sp \in {"", "preserve", "default"}}

SpacePackages ==
  {[EmptyPkg EXCEPT ![DocPath] = d] : d \in PartsOf(UpTo(WtOpts, MaxWt))}

(* the whole pipeline: one sector of the package ranges over its domain    *)
(* while the other two take a sample                                       *)
Triple(v) == <<WithId("w:commentRangeStart", v), WithId("w:commentRangeEnd", v),
               WithId("w:commentReference", v)>>

ChunkOpts == {Triple("1"), <<WithId("w:bookmarkStart", "1")>>, <<WithId("w:ins", "1")>>,
              <<WithId("w:ins", "2")>>, <<WithId("w:commentRangeStart", "2")>>,
              <<WithId("w:ins", "x")>>, <<WithId("w:bookmarkStart", "x")>>}

PipeWtOpts == {Wt(<<" ", "f">>, ""), Wt(<<" ", "f">>, "default"), Wt(<<"f">>, "")}

PipeDocs ==
  PartsOf({Concat(c) \o w : c \in UpTo(ChunkOpts, PipeSize), w \in UpTo(PipeWtOpts, 1)})

DocSample == Ok(Triple("1") \o <<WithId("w:bookmarkStart", "1"), WithId("w:ins", "1"),
                                 Wt(<<" ", "f">>, "")>>)

CommentSamples ==
  {[f \in {CommentsPath, ExtPath, IdsPath, ExtensiblePath} |->
      IF f = CommentsPath THEN Ok(<<c>>)
      ELSE IF f = ExtPath THEN Ok(<<CommentEx("P1", "D1"), CommentEx("P9", "D9")>>)
      ELSE IF f = IdsPath THEN Ok(<<CommentId("P1")>>)
      ELSE Ok(<<CommentExtensible("D9")>>)] :
     c \in {Comment("1", <<Para("P1", "")>>), Comment("2", <<Para("P1", "")>>)}}

ManifestSample ==
  [f \in {CtPath} \cup RelsPaths |->
     IF f = CtPath
     THEN Ok(<<Override("/word/document.xml", "A"), Override("/word/document.xml", "B")>>)
     ELSE Ok(<<Relationship("rId1", "T1", "a.xml"), Relationship("rId2", "T1", "a.xml")>>)]

PipePackages ==
  {WithParts(WithParts([EmptyPkg EXCEPT ![DocPath] = d], c), ManifestSample) :
      d \in PipeDocs, c \in CommentSamples}
    \cup {WithParts(WithParts([EmptyPkg EXCEPT ![DocPath] = DocSample], c), ManifestSample) :
            c \in CommentParts(PipeMeta, PipeMeta)}
    \cup {WithParts(WithParts([EmptyPkg EXCEPT ![DocPath] = DocSample], c), m) :
            c \in CommentSamples, m \in Manifests(PipeSize)}

(* the parallel runs: a document of annotation groups that collide, with or *)
(* without a w:t run, over the sampled comment parts and manifests         *)
ParGroupOpts == {Triple("1") \o <<WithId("w:bookmarkStart", "1")>>,
                 <<WithId("w:ins", "1"), WithId("w:bookmarkStart", "1")>>,
                 Triple("2") \o <<WithId("w:ins", "2")>>}

ParPackages ==
  {WithParts(WithParts([EmptyPkg EXCEPT ![DocPath] = Ok(Concat(g) \o w)], c),
             ManifestSample) :
      g \in UpTo(ParGroupOpts, ParSize), w \in UpTo(PipeWtOpts, 1), c \in CommentSamples}

Start(p, steps) ==
  /\ pkg = p
  /\ pkg0 = p
  /\ todo = steps
  /\ log = <<>>
  /\ verdict = NoVerdict
  /\ mem = NoMem

InitIds == \E p \in IdsPackages : Start(p, <<"deconflict_ids">>)

NextIds == DeconflictIds

SpecIds == InitIds /\ [][NextIds]_vars

InitDedup == \E p \in DedupPackages : Start(p, <<"dedup_relationships">>)

NextDedup == DedupRelationships

SpecDedup == InitDedup /\ [][NextDedup]_vars

InitOrphan == \E p \in OrphanPackages : Start(p, <<"clean_orphaned_comments">>)

NextOrphan == CleanOrphanedComments

SpecOrphan == InitOrphan /\ [][NextOrphan]_vars

InitSpace == \E p \in SpacePackages : Start(p, <<"fix_xml_space">>)

NextSpace == FixXmlSpace

SpecSpace == InitSpace /\ [][NextSpace]_vars

\* the validator, ooxml_fixup.main twice, the validator again
Init == \E p \in PipePackages :
          Start(p, <<"validate">> \o MainSteps \o MainSteps \o <<"validate">>)

Next == \/ DeconflictIds
        \/ DedupRelationships
        \/ CleanOrphanedComments
        \/ FixXmlSpace
        \/ Report
        \/ Validate

Spec == Init /\ [][Next]_vars

\* the four phases started together, no phase having loaded anything
InitPar == \E p \in ParPackages :
  /\ pkg = p
  /\ pkg0 = p
  /\ todo = <<>>
  /\ log = <<>>
  /\ verdict = NoVerdict
  /\ mem = [ctl |-> [ph \in PhaseNames |->
                       [nload |-> 0, nwrite |-> 0, snap |-> NothingLoaded]],
            writers |-> [path \in Paths |-> {}],
            raced |-> FALSE]

NextPar == \/ DeconflictLoad
           \/ DeconflictWrite
           \/ DedupLoad
           \/ DedupWrite
           \/ CleanLoad
           \/ CleanWrite
           \/ SpaceLoad
           \/ SpaceWrite

SpecPar == InitPar /\ [][NextPar]_vars

\* one invocation of main in which the write after the first n fails
InitFail == \E p \in ParPackages, n \in 0..MaxGoodWrites :
  /\ pkg = p
  /\ pkg0 = p
  /\ todo = MainSteps
  /\ log = <<>>
  /\ verdict = NoVerdict
  /\ mem = [budget |-> n, failed |-> FALSE]

NextFail == \/ DeconflictIdsRun
            \/ DedupRelationshipsRun
            \/ CleanOrphanedCommentsRun
            \/ FixXmlSpaceRun
            \/ Report

SpecFail == InitFail /\ [][NextFail]_vars

(* the validator before and after one repair: each sector of the package   *)
(* ranges over its domain while the others are empty                       *)
CommentMarkOpts == {e \in AnnOpts : e.tag \in Range(COMMENT_DOC_TAGS)}

CheckPackages ==
  {[EmptyPkg EXCEPT ![DocPath] = d] : d \in PartsOf(UpTo(CommentMarkOpts, MaxAnn))}
    \cup {WithParts(EmptyPkg, m) :
            m \in {c \in CommentParts(MaxComments, MaxMeta) : c[ExtensiblePath] = Absent}}
    \cup DedupPackages
    \cup SpacePackages

\* ooxml_validate.main, ooxml_fixup.main, ooxml_validate.main
InitCheck == \E p \in CheckPackages : Start(p, <<"validate">> \o MainSteps \o <<"validate">>)

NextCheck == \/ Validate
             \/ DeconflictIds
             \/ DedupRelationships
             \/ CleanOrphanedComments
             \/ FixXmlSpace
             \/ Report

SpecCheck == InitCheck /\ [][NextCheck]_vars

\* the four phases run one after the other in some order
Orders == {s \in [1..4 -> PhaseNames] : \A i, j \in 1..4 : s[i] = s[j] => i = j}

\* every document of the pipeline over the sampled comment parts, with
\* comments.xml as sampled or unparseable, and the sampled manifests
OrderPackages ==
  {WithParts(WithParts([EmptyPkg EXCEPT ![DocPath] = d], c), ManifestSample) :
      d \in PipeDocs,
      c \in CommentSamples \cup {[s EXCEPT ![CommentsPath] = Bad] : s \in CommentSamples}}

InitOrder == \E p \in OrderPackages, s \in Orders : Start(p, s)

NextOrder == \/ DeconflictIds
             \/ DedupRelationships
             \/ CleanOrphanedComments
             \/ FixXmlSpace

SpecOrder == InitOrder /\ [][NextOrder]_vars

(***************************************************************************)
(* Claims.                                                                 *)
(***************************************************************************)
KindSet(p, tags) == Keys(collect_w_ids(p[DocPath].els, tags))

Ran(phase) == log # <<>> /\ log[Len(log)].phase = phase

\* C1: after deconflict_ids on a parseable document.xml the bookmark, comment
\* and change id sets recomputed from the document are pairwise disjoint.
C1_KindSetsDisjoint ==
  (Ran("deconflict_ids") /\ parse_ok(pkg, DocPath)) =>
     /\ KindSet(pkg, BOOKMARK_TAGS) \cap KindSet(pkg, COMMENT_DOC_TAGS) = {}
     /\ KindSet(pkg, BOOKMARK_TAGS) \cap KindSet(pkg, CHANGE_TAGS) = {}
     /\ KindSet(pkg, COMMENT_DOC_TAGS) \cap KindSet(pkg, CHANGE_TAGS) = {}

\* a run that renumbered a comment and a change while a bookmarkStart and a
\* bookmarkEnd go on sharing one id
C1_Witness ==
  /\ Ran("deconflict_ids")
  /\ log[Len(log)].summary.comments_renumbered > 0
  /\ log[Len(log)].summary.changes_renumbered > 0
  /\ \E i, j \in DOMAIN pkg[DocPath].els :
        /\ pkg[DocPath].els[i].tag = "w:bookmarkStart"
        /\ pkg[DocPath].els[j].tag = "w:bookmarkEnd"
        /\ getAttribute(pkg[DocPath].els[i], "w:id") # ""
        /\ getAttribute(pkg[DocPath].els[i], "w:id") =
             getAttribute(pkg[DocPath].els[j], "w:id")

\* the log entries of the second invocation of main in the pipeline runs
SecondRun == {k \in DOMAIN log : k > Len(MainSteps)}

\* C2: the second run of the four phases reports every counter as 0 (and so
\* total_changes as 0), writes no part and changes no part.
C2_SecondRunIsNoOp ==
  \A k \in SecondRun :
     /\ \A f \in DOMAIN log[k].summary : log[k].summary[f] = 0
     /\ log[k].writes = <<>>
     /\ log[k].changed = {}

\* both invocations are over, and in the first one every phase changed something
C2_Witness ==
  /\ Len(log) = 2 * Len(MainSteps)
  /\ log[1].summary.comments_renumbered > 0
  /\ log[1].summary.changes_renumbered > 0
  /\ log[2].summary.content_types_removed > 0
  /\ log[2].summary.rels_removed > 0
  /\ log[3].summary.orphans_removed > 0
  /\ log[4].summary.space_attrs_added > 0
  /\ log[2 * Len(MainSteps)].summary.total_changes = 0

\* a package without unrepairable issues: no comment-range member is missing,
\* and where a metadata part exists every live comment paragraph has its entry
NoUnrepairableIssue(p) ==
  /\ check_comment_consistency(p) = <<>>
  /\ Readable(p, CommentsPath) =>
       /\ exists(p, ExtPath) =>
            CommentParaIds(p[CommentsPath].els)
              \subseteq MetaParaIds(p, ExtPath, "w15:commentEx", "w15:paraId")
       /\ exists(p, IdsPath) =>
            CommentParaIds(p[CommentsPath].els)
              \subseteq MetaParaIds(p, IdsPath, "w16cid:commentId", "w16cid:paraId")

\* the validator has just run on the repaired package
ValidatedAfterRepair == todo = <<>> /\ Len(log) = 2 * Len(MainSteps)

\* C3: on a package without unrepairable issues, the validator run right
\* after the repair pipeline returns PASS.
C3_ValidatorAgreement ==
  (ValidatedAfterRepair /\ NoUnrepairableIssue(pkg0)) => verdict.status = "PASS"

\* the positions of els holding an element of `tag`, and among them those
\* whose key no earlier element of `tag` has
FirstOfKey(els, tag, key_attrs) ==
  {i \in DOMAIN els :
     /\ els[i].tag = tag
     /\ \A k \in 1..(i - 1) :
           els[k].tag = tag => KeyOf(els[k], key_attrs) # KeyOf(els[i], key_attrs)}

CountKey(els, tag, key_attrs, key) ==
  Cardinality({i \in DOMAIN els : els[i].tag = tag /\ KeyOf(els[i], key_attrs) = key})

\* a is b with some elements left out, the others in their order
RECURSIVE IsSubseq(_, _)
IsSubseq(a, b) ==
  IF a = <<>> THEN TRUE
  ELSE IF b = <<>> THEN FALSE
  ELSE IF Head(a) = Head(b) THEN IsSubseq(Tail(a), Tail(b))
  ELSE IsSubseq(a, Tail(b))

\* every key of `tag` that occurred before occurs exactly once after, on the
\* element that was its first occurrence, and the survivors keep their order
DedupPost(before, after, tag, key_attrs) ==
  /\ \A i \in FirstOfKey(before, tag, key_attrs) :
        /\ CountKey(after, tag, key_attrs, KeyOf(before[i], key_attrs)) = 1
        /\ before[i] \in Range(after)
  /\ IsSubseq(after, before)

\* C4: after dedup_relationships every PartName of an Override and every
\* Extension of a Default of the content-types manifest, and in each .rels
\* file every (Type, Target), occurs exactly once, on its first occurrence,
\* the survivors in their original order.
C4_DedupFirstOccurrence ==
  Ran("dedup_relationships") =>
     /\ Readable(pkg0, CtPath) =>
          /\ DedupPost(pkg0[CtPath].els, pkg[CtPath].els, "Override", PartNameKey)
          /\ DedupPost(pkg0[CtPath].els, pkg[CtPath].els, "Default", ExtensionKey)
     /\ \A f \in RelsPaths :
          Readable(pkg0, f) =>
            DedupPost(pkg0[f].els, pkg[f].els, "Relationship", TypeTargetKey)

\* duplicates were removed from the manifest and from a .rels file, while
\* both .rels files go on holding the same (Type, Target)
C4_Witness ==
  /\ Ran("dedup_relationships")
  /\ log[1].summary.content_types_removed >= 2
  /\ log[1].summary.rels_removed > 0
  /\ \A f \in RelsPaths :
        /\ Readable(pkg, f)
        /\ \E i \in DOMAIN pkg[f].els :
              KeyOf(pkg[f].els[i], TypeTargetKey) = <<"T1", "a.xml">>

\* the entries of `tag` in a readable part
Entries(p, path, tag) ==
  IF Readable(p, path)
  THEN {p[path].els[i] : i \in {i \in DOMAIN p[path].els : p[path].els[i].tag = tag}}
  ELSE {}

LiveParaIds(p) == CommentParaIds(p[CommentsPath].els)

\* the durableIds carried by the remaining commentsExtended entries whose
\* paraId is valid
LiveDurableIds(p) ==
  {getAttribute(e, "w15:durableId") :
     e \in {e \in Entries(p, ExtPath, "w15:commentEx") :
              getAttribute(e, "w15:paraId") \in LiveParaIds(p)}} \ {""}

\* C5 as claimed: after clean_orphaned_comments every remaining entry of
\* commentsExtended and commentsIds has a paraId of a paragraph inside some
\* w:comment, and every remaining entry of commentsExtensible a durableId
\* carried by a commentsExtended entry with a valid paraId.
C5_Original ==
  (Ran("clean_orphaned_comments") /\ Readable(pkg, CommentsPath)) =>
     /\ \A e \in Entries(pkg, ExtPath, "w15:commentEx") :
           getAttribute(e, "w15:paraId") \in LiveParaIds(pkg)
     /\ \A e \in Entries(pkg, IdsPath, "w16cid:commentId") :
           getAttribute(e, "w16cid:paraId") \in LiveParaIds(pkg)
     /\ \A e \in Entries(pkg, ExtensiblePath, "w16cex:commentExtensible") :
           getAttribute(e, "w16cex:durableId") \in LiveDurableIds(pkg)

\* C5 as amended: a remaining entry of commentsExtended or commentsIds has no
\* paraId or the paraId of a paragraph inside some w:comment; a remaining
\* entry of commentsExtensible has no durableId, or a durableId carried by a
\* commentsExtended entry with a valid paraId, or no such entry carries a
\* durableId at all.
C5_OrphanInvariant ==
  (Ran("clean_orphaned_comments") /\ Readable(pkg, CommentsPath)) =>
     /\ \A e \in Entries(pkg, ExtPath, "w15:commentEx") :
           getAttribute(e, "w15:paraId") \in LiveParaIds(pkg) \cup {""}
     /\ \A e \in Entries(pkg, IdsPath, "w16cid:commentId") :
           getAttribute(e, "w16cid:paraId") \in LiveParaIds(pkg) \cup {""}
     /\ \/ LiveDurableIds(pkg) = {}
        \/ \A e \in Entries(pkg, ExtensiblePath, "w16cex:commentExtensible") :
              getAttribute(e, "w16cex:durableId") \in LiveDurableIds(pkg) \cup {""}

\* orphans were removed from each of the three metadata parts
C5_Witness ==
  /\ Ran("clean_orphaned_comments")
  /\ {ExtPath, IdsPath, ExtensiblePath} \subseteq log[1].changed
  /\ LiveDurableIds(pkg) # {}

HasEdgeWhitespace(el) == el.tag = "w:t" /\ el.text # strip(el.text)

\* C6: after fix_xml_space every w:t whose text has leading or trailing
\* whitespace carries xml:space="preserve", and a w:t without such whitespace
\* has the attributes it had.
C6_EveryWhitespaceRunPreserved ==
  (Ran("fix_xml_space") /\ parse_ok(pkg, DocPath)) =>
     \A i \in DOMAIN pkg[DocPath].els :
        LET el == pkg[DocPath].els[i]
        IN /\ HasEdgeWhitespace(el) => getAttribute(el, "xml:space") = "preserve"
           /\ (el.tag = "w:t" /\ ~HasEdgeWhitespace(el)) => el = pkg0[DocPath].els[i]

\* the verdict the five checks call for on package p
VerdictMatches(v, p) ==
  LET five == <<check_unique_ids(p), check_comment_consistency(p),
                check_comment_artifacts(p), check_duplicate_entries(p),
                check_xml_space(p)>>
      clean == \A k \in DOMAIN five : five[k] = <<>>
  IN /\ (v.status = "PASS" /\ v.issue_count = 0 /\ v.exit = 0) <=> clean
     /\ ~clean =>
          /\ v.status = "FAIL"
          /\ v.exit = 1
          /\ v.issue_count = Len(v.issues)
          /\ v.issue_count = SumSeq([k \in DOMAIN five |-> Len(five[k])])
          /\ \A k \in DOMAIN five : Range(five[k]) \subseteq Range(v.issues)

\* the validator has just run: before the repair, or after it
JustValidated ==
  /\ verdict # NoVerdict
  /\ (log = <<>> \/ todo = <<>>)

\* C7: the verdict is PASS, issue_count 0, exit status 0 exactly when the five
\* checks return no issue; otherwise FAIL, exit status 1, issue_count the
\* length of the list, which holds every issue of every check.
C7_VerdictIffNoIssue == JustValidated => VerdictMatches(verdict, pkg)

\* a FAIL verdict that lists the issues of three different checks
C7_Witness ==
  /\ JustValidated
  /\ verdict.status = "FAIL"
  /\ Cardinality({verdict.issues[j].check : j \in DOMAIN verdict.issues}) >= 3

\* C8: the validator writes nothing: a validator run leaves every part as it was.
C8_ValidatorReadOnly == [][At("validate") => pkg' = pkg]_vars

\* the validator has run on an unrepaired package and reported issues
C8_Witness ==
  /\ verdict # NoVerdict
  /\ verdict.status = "FAIL"
  /\ log = <<>>
  /\ pkg = pkg0

AllDone == \A ph \in PhaseNames : Finished(ph)

\* C9 as claimed: no part is written by more than one phase, and when the
\* phases have run in parallel, their loads and writes interleaved in any
\* way, the package is the one the sequential run yields.
C9_Original ==
  /\ \A path \in Paths : Cardinality(mem.writers[path]) <= 1
  /\ AllDone => pkg = main(pkg0)

\* C9 as amended: every part other than word/document.xml is written by at
\* most one phase; word/document.xml is written by deconflict_ids and by
\* fix_xml_space only; and when these two did not overlap, the loads and
\* writes of the phases interleaved in any other way, the package is the one
\* the sequential run yields.
C9_OnlyDocumentShared ==
  /\ \A path \in Paths \ {DocPath} : Cardinality(mem.writers[path]) <= 1
  /\ mem.writers[DocPath] \subseteq {"deconflict_ids", "fix_xml_space"}
  /\ (AllDone /\ ~mem.raced) => pkg = main(pkg0)

\* a parallel run is over in which deconflict_ids and fix_xml_space did not
\* overlap, both wrote word/document.xml and each phase wrote a part
C9_Witness ==
  /\ AllDone
  /\ ~mem.raced
  /\ mem.writers[DocPath] = {"deconflict_ids", "fix_xml_space"}
  /\ mem.writers[CommentsPath] = {"deconflict_ids"}
  /\ mem.writers[ExtPath] = {"clean_orphaned_comments"}
  /\ mem.writers[CtPath] = {"dedup_relationships"}

NoRepeat(s) == \A i, j \in DOMAIN s : s[i] = s[j] => i = j

\* C10: a phase writes each part at most once, and only a part in which it
\* changed an attribute or removed a node.
C10_WriteIfDirty ==
  \A k \in DOMAIN log :
     /\ NoRepeat(log[k].writes)
     /\ Range(log[k].writes) \subseteq log[k].changed

\* the four phases of the first invocation of main have run
FirstMainRan ==
  /\ Len(log) >= 4
  /\ <<log[1].phase, log[2].phase, log[3].phase, log[4].phase>> =
       <<"deconflict_ids", "dedup_relationships", "clean_orphaned_comments",
         "fix_xml_space">>

\* no parseable manifest holds a duplicate, no parseable metadata part an
\* orphan the cleanup removes
ManifestsAndMetadataRepaired(p) ==
  /\ CtRemovals(p) = {}
  /\ \A f \in RelsFound(p) : RelsRemovals(p, f) = {}
  /\ Readable(p, CommentsPath) =>
       LET valid == CommentParaIds(p[CommentsPath].els)
       IN /\ ExtRemovals(p, valid) = {}
          /\ IdsRemovals(p, valid) = {}
          /\ ExtensibleRemovals(p, DurableIdsFromValid(p, valid)) = {}

\* C11: when word/document.xml is missing or not well-formed, deconflict_ids
\* returns the zero-change summary and writes nothing, the invocation goes on
\* to the end, and the other phases run and repair the parts they can parse.
C11_BestEffortOnBadDocument ==
  ~parse_ok(pkg0, DocPath) =>
     /\ \A k \in DOMAIN log :
          log[k].phase = "deconflict_ids" =>
             /\ log[k].summary = ZeroIds
             /\ log[k].writes = <<>>
             /\ log[k].changed = {}
     /\ Len(log) < 2 * Len(MainSteps) => todo # <<>>
     /\ Len(log) >= 4 =>
          /\ FirstMainRan
          /\ ManifestsAndMetadataRepaired(pkg)
          /\ pkg[DocPath] = pkg0[DocPath]

\* on a document that is not well-formed the first invocation is over, and
\* dedup_relationships and clean_orphaned_comments each removed something
C11_Witness ==
  /\ pkg0[DocPath] = Bad
  /\ FirstMainRan
  /\ log[1].summary = ZeroIds
  /\ log[2].summary.content_types_removed > 0
  /\ log[2].summary.rels_removed > 0
  /\ log[3].summary.orphans_removed > 0

\* C12: once a write has failed the invocation is over: the phase returned no
\* summary, no later phase runs and main emits no change summary.
C12_WriteFailureIsFatal ==
  mem.failed =>
     /\ todo = <<>>
     /\ \A k \in DOMAIN log : log[k].phase # "main"
     /\ "summary" \notin DOMAIN log[Len(log)]

\* a write of clean_orphaned_comments failed after the two phases before it
\* had written their parts
C12_Witness ==
  /\ mem.failed
  /\ Len(log) = 3
  /\ log[1].writes # <<>>
  /\ log[2].writes # <<>>
  /\ log[3].phase = "clean_orphaned_comments"
  /\ log[3].writes # <<>>

IdAt(els, i) == getAttribute(els[i], "w:id")

\* the element is one of `tags` and carries an integer w:id
Indexed(el, tags) ==
  /\ el.tag \in Range(tags)
  /\ getAttribute(el, "w:id") # ""
  /\ IsInt(getAttribute(el, "w:id"))

\* the positions of the document nodes of `tags` that carried id n at the start
Carriers(tags, n) ==
  {i \in DOMAIN pkg0[DocPath].els :
     Indexed(pkg0[DocPath].els[i], tags) /\ IntOf(IdAt(pkg0[DocPath].els, i)) = n}

\* every integer id of an annotation node of the original document
OriginalIds == KindSet(pkg0, ALL_TAGS)

\* the comment ids that collide in the original document
CollidingCommentIds ==
  KindSet(pkg0, COMMENT_DOC_TAGS)
    \cap (KindSet(pkg0, BOOKMARK_TAGS) \cup KindSet(pkg0, CHANGE_TAGS))

\* C13: the comment ids renumbered are exactly those in the original bookmark
\* or change set; every comment node of the document that carried such an id
\* gets one and the same fresh id, and so does every w:comment of comments.xml
\* whose w:id was that id.
C13_CommentPass ==
  (Ran("deconflict_ids") /\ parse_ok(pkg0, DocPath)) =>
     /\ \A n \in KindSet(pkg0, COMMENT_DOC_TAGS) :
          \A i \in Carriers(COMMENT_DOC_TAGS, n) :
             (pkg[DocPath].els[i] # pkg0[DocPath].els[i]) <=> n \in CollidingCommentIds
     /\ \A n \in CollidingCommentIds :
          \E new \in 0..ParseMax :
             /\ new \notin OriginalIds
             /\ \A i \in Carriers(COMMENT_DOC_TAGS, n) :
                  pkg[DocPath].els[i] =
                    setAttribute(pkg0[DocPath].els[i], "w:id", Str(new))
             /\ Readable(pkg0, CommentsPath) =>
                  \A k \in DOMAIN pkg0[CommentsPath].els :
                     (Indexed(pkg0[CommentsPath].els[k], <<"w:comment">>)
                        /\ IntOf(IdAt(pkg0[CommentsPath].els, k)) = n)
                       => pkg[CommentsPath].els[k] =
                            setAttribute(pkg0[CommentsPath].els[k], "w:id", Str(new))

\* a comment whose three nodes shared a colliding id was renumbered in the
\* document and in comments.xml, next to a comment left alone
C13_Witness ==
  /\ Ran("deconflict_ids")
  /\ CommentsPath \in log[1].changed
  /\ \E n \in CollidingCommentIds : Cardinality(Carriers(COMMENT_DOC_TAGS, n)) >= 2
  /\ KindSet(pkg0, COMMENT_DOC_TAGS) \ CollidingCommentIds # {}

\* the document node at position i was rewritten by the run
Rewritten(i) == pkg[DocPath].els[i] # pkg0[DocPath].els[i]

\* C14: a change node is renumbered only if its id is in the original
\* bookmark set or in the comment set as it stands after the comment pass; a
\* change id that collided only with a comment id the comment pass moved
\* keeps its id.
C14_ChangePassRechecks ==
  (Ran("deconflict_ids") /\ parse_ok(pkg0, DocPath)) =>
     \A n \in KindSet(pkg0, CHANGE_TAGS) :
        \A i \in Carriers(CHANGE_TAGS, n) :
           Rewritten(i) =>
              n \in KindSet(pkg0, BOOKMARK_TAGS) \cup KindSet(pkg, COMMENT_DOC_TAGS)

\* what the change pass does: a change node is renumbered exactly if its id
\* is in the original bookmark set or in the original comment set
ChangePassUsesOriginalSets ==
  (Ran("deconflict_ids") /\ parse_ok(pkg0, DocPath)) =>
     \A n \in KindSet(pkg0, CHANGE_TAGS) :
        \A i \in Carriers(CHANGE_TAGS, n) :
           Rewritten(i) <=>
              n \in KindSet(pkg0, BOOKMARK_TAGS) \cup KindSet(pkg0, COMMENT_DOC_TAGS)

\* a change id collided with a comment id and with no bookmark id, the comment
\* pass moved the comment, and the change node was renumbered as well, while a
\* change node without collision kept its id
ChangeMovedAfterComment ==
  /\ Ran("deconflict_ids")
  /\ \E n \in (KindSet(pkg0, CHANGE_TAGS) \cap KindSet(pkg0, COMMENT_DOC_TAGS))
                 \ KindSet(pkg0, BOOKMARK_TAGS) :
        /\ n \notin KindSet(pkg, COMMENT_DOC_TAGS)
        /\ \A i \in Carriers(CHANGE_TAGS, n) : Rewritten(i)
  /\ \E n \in KindSet(pkg0, CHANGE_TAGS) :
        \E i \in Carriers(CHANGE_TAGS, n) : ~Rewritten(i)

\* the old ids of `tags` whose nodes the run rewrote
Moved(tags) ==
  {n \in KindSet(pkg0, tags) : \E i \in Carriers(tags, n) : Rewritten(i)}

\* the id the nodes of `tags` that carried n carry now
NewId(tags, n) ==
  IntOf(IdAt(pkg[DocPath].els, CHOOSE i \in Carriers(tags, n) : TRUE))

\* the (pass, old id) pairs that were given a fresh id
Served ==
  {<<COMMENT_DOC_TAGS, n>> : n \in Moved(COMMENT_DOC_TAGS)}
    \cup {<<CHANGE_TAGS, n>> : n \in Moved(CHANGE_TAGS)}

\* C15: the fresh ids are max + 1, max + 2, ... of one counter: each is above
\* every id of the original document, no two (pass, old id) pairs get the same
\* fresh id, within a pass a smaller old id gets a smaller fresh id, and every
\* fresh comment id is below every fresh change id.
C15_FreshIdsFromOneCounter ==
  (Ran("deconflict_ids") /\ parse_ok(pkg0, DocPath)) =>
     /\ \A s \in Served : \A m \in OriginalIds : NewId(s[1], s[2]) > m
     /\ \A s, t \in Served : NewId(s[1], s[2]) = NewId(t[1], t[2]) => s = t
     /\ \A s, t \in Served :
          (s[1] = t[1] /\ s[2] < t[2]) => NewId(s[1], s[2]) < NewId(t[1], t[2])
     /\ \A a \in Moved(COMMENT_DOC_TAGS) : \A b \in Moved(CHANGE_TAGS) :
          NewId(COMMENT_DOC_TAGS, a) < NewId(CHANGE_TAGS, b)
     /\ Served # {} =>
          {NewId(s[1], s[2]) : s \in Served} =
            (Max(OriginalIds) + 1)..(Max(OriginalIds) + Cardinality(Served))

\* two comment ids and two change ids were given fresh ids in one run
C15_Witness ==
  /\ Ran("deconflict_ids")
  /\ Cardinality(Moved(COMMENT_DOC_TAGS)) >= 2
  /\ Cardinality(Moved(CHANGE_TAGS)) >= 2

KindSetsDisjoint(p) ==
  /\ KindSet(p, BOOKMARK_TAGS) \cap KindSet(p, COMMENT_DOC_TAGS) = {}
  /\ KindSet(p, BOOKMARK_TAGS) \cap KindSet(p, CHANGE_TAGS) = {}
  /\ KindSet(p, COMMENT_DOC_TAGS) \cap KindSet(p, CHANGE_TAGS) = {}

\* the ids of `tags` that are in no other kind set of the original document
InOneKindOnly(tags, others1, others2) ==
  KindSet(pkg0, tags) \ (KindSet(pkg0, others1) \cup KindSet(pkg0, others2))

\* the only collision of the original document is bookmark id b with a change
OnlyBookmarkChangeCollision(b) ==
  /\ KindSet(pkg0, BOOKMARK_TAGS) \cap KindSet(pkg0, CHANGE_TAGS) = {b}
  /\ KindSet(pkg0, BOOKMARK_TAGS) \cap KindSet(pkg0, COMMENT_DOC_TAGS) = {}
  /\ KindSet(pkg0, COMMENT_DOC_TAGS) \cap KindSet(pkg0, CHANGE_TAGS) = {}

\* C16: deconflict_ids rewrites no bookmark node and no comment or change node
\* whose id is in one kind set only; on pairwise disjoint kind sets it returns
\* the zero-change summary and leaves the package untouched; when the only
\* collision is a bookmark id b shared with a change node, that node gets
\* max + 1 and the bookmark nodes keep b.
C16_FrameOfDeconfliction ==
  (Ran("deconflict_ids") /\ parse_ok(pkg0, DocPath)) =>
     /\ \A i \in DOMAIN pkg0[DocPath].els :
          pkg0[DocPath].els[i].tag \in Range(BOOKMARK_TAGS) => ~Rewritten(i)
     /\ \A n \in InOneKindOnly(COMMENT_DOC_TAGS, BOOKMARK_TAGS, CHANGE_TAGS) :
          \A i \in Carriers(COMMENT_DOC_TAGS, n) : ~Rewritten(i)
     /\ \A n \in InOneKindOnly(CHANGE_TAGS, BOOKMARK_TAGS, COMMENT_DOC_TAGS) :
          \A i \in Carriers(CHANGE_TAGS, n) : ~Rewritten(i)
     /\ KindSetsDisjoint(pkg0) =>
          /\ log[1].summary = ZeroIds
          /\ log[1].writes = <<>>
          /\ pkg = pkg0
     /\ \A b \in KindSet(pkg0, BOOKMARK_TAGS) :
          OnlyBookmarkChangeCollision(b) =>
             /\ \A i \in Carriers(CHANGE_TAGS, b) :
                  pkg[DocPath].els[i] =
                    setAttribute(pkg0[DocPath].els[i], "w:id",
                                 Str(Max(OriginalIds) + 1))
             /\ \A i \in Carriers(BOOKMARK_TAGS, b) :
                  IdAt(pkg[DocPath].els, i) = IdAt(pkg0[DocPath].els, i)

\* the only collision was a bookmark id shared with a change node, which was
\* renumbered, next to a comment node that kept its id
C16_Witness ==
  /\ Ran("deconflict_ids")
  /\ \E b \in KindSet(pkg0, BOOKMARK_TAGS) : OnlyBookmarkChangeCollision(b)
  /\ log[1].summary.changes_renumbered = 1
  /\ log[1].summary.comments_renumbered = 0
  /\ InOneKindOnly(COMMENT_DOC_TAGS, BOOKMARK_TAGS, CHANGE_TAGS) # {}

\* C17: the counters of deconflict_ids are the numbers of identifiers
\* renumbered: of distinct old comment ids and of distinct old change ids that
\* were given a fresh id.
C17_CountersCountIdentifiers ==
  (Ran("deconflict_ids") /\ parse_ok(pkg0, DocPath)) =>
     /\ log[1].summary.comments_renumbered = Cardinality(Moved(COMMENT_DOC_TAGS))
     /\ log[1].summary.changes_renumbered = Cardinality(Moved(CHANGE_TAGS))

\* what the counters are: the numbers of comment nodes and of change nodes
\* rewritten
CountersCountNodes ==
  (Ran("deconflict_ids") /\ parse_ok(pkg0, DocPath)) =>
     /\ log[1].summary.comments_renumbered =
          Cardinality(UNION {Carriers(COMMENT_DOC_TAGS, n) : n \in Moved(COMMENT_DOC_TAGS)})
     /\ log[1].summary.changes_renumbered =
          Cardinality(UNION {Carriers(CHANGE_TAGS, n) : n \in Moved(CHANGE_TAGS)})

\* the original package with comments.xml replaced by a parseable one
WithComments(els) == [pkg0 EXCEPT ![CommentsPath] = Ok(els)]

\* C18: with comments.xml absent or not well-formed and a collision in
\* document.xml, deconflict_ids renumbers the document as it would with a
\* parseable comments.xml, writes document.xml only, and leaves comments.xml
\* absent or as it was.
C18_DocumentSideStillRuns ==
  (/\ Ran("deconflict_ids")
   /\ parse_ok(pkg0, DocPath)
   /\ ~Readable(pkg0, CommentsPath)
   /\ ~KindSetsDisjoint(pkg0)) =>
     /\ \A els \in UpTo(CommentIdOpts, MaxComments) :
          pkg[DocPath] = deconflict_ids(WithComments(els)).pkg[DocPath]
     /\ Moved(COMMENT_DOC_TAGS) \cup Moved(CHANGE_TAGS) # {}
     /\ log[1].writes = <<DocPath>>
     /\ pkg[CommentsPath] = pkg0[CommentsPath]

\* comments.xml is not well-formed, and a comment id and a change id were
\* renumbered in the document
C18_Witness ==
  /\ Ran("deconflict_ids")
  /\ pkg0[CommentsPath] = Bad
  /\ log[1].summary.comments_renumbered > 0
  /\ log[1].summary.changes_renumbered > 0
  /\ pkg[CommentsPath] = Bad

\* the annotation nodes of the original document whose w:id is missing, empty
\* or no decimal number
Unindexed ==
  {i \in DOMAIN pkg0[DocPath].els :
     /\ pkg0[DocPath].els[i].tag \in Range(ALL_TAGS)
     /\ \A n \in 0..ParseMax : IdAt(pkg0[DocPath].els, i) \notin Spellings(n)}

\* C19: an annotation node whose w:id is missing, empty or not an integer is
\* never rewritten, and the run is the run on the document without these
\* nodes: the same summary, the same writes, the same other nodes.
C19_UnindexedNodesIgnored ==
  (Ran("deconflict_ids") /\ parse_ok(pkg0, DocPath)) =>
     /\ \A i \in Unindexed : ~Rewritten(i)
     /\ LET r == deconflict_ids(
                   [pkg0 EXCEPT ![DocPath].els = Without(@, Unindexed)])
        IN /\ r.summary = log[1].summary
           /\ r.writes = log[1].writes
           /\ r.pkg[DocPath].els = Without(pkg[DocPath].els, Unindexed)
           /\ r.pkg[CommentsPath] = pkg[CommentsPath]

\* a bookmark and a change share the id "x" in a document whose integer ids
\* collided and were renumbered
C19_Witness ==
  /\ Ran("deconflict_ids")
  /\ log[1].summary.changes_renumbered > 0
  /\ \E i, j \in Unindexed :
        /\ pkg[DocPath].els[i].tag = "w:bookmarkStart"
        /\ pkg[DocPath].els[j].tag = "w:ins"
        /\ IdAt(pkg[DocPath].els, i) = "x"
        /\ IdAt(pkg[DocPath].els, j) = "x"

\* the unique_ids issues of the verdict
UniqueIdIssues ==
  IF verdict.status = "FAIL"
  THEN SelectSeq(verdict.issues, LAMBDA x : x.check = "unique_ids")
  ELSE <<>>

\* the ids the index of deconflict_ids places in more than one kind set
IndexCollisions(p) ==
  (KindSet(p, BOOKMARK_TAGS) \cap KindSet(p, COMMENT_DOC_TAGS))
    \cup (KindSet(p, BOOKMARK_TAGS) \cap KindSet(p, CHANGE_TAGS))
    \cup (KindSet(p, COMMENT_DOC_TAGS) \cap KindSet(p, CHANGE_TAGS))

\* C20: check_unique_ids reports a value exactly if the index of
\* deconflict_ids places it in more than one kind set, one issue per value.
C20_ValidatorUsesDeconflictionIndex ==
  (JustValidated /\ parse_ok(pkg, DocPath)) =>
     /\ \A j \in DOMAIN UniqueIdIssues :
          /\ IsInt(UniqueIdIssues[j].id)
          /\ IntOf(UniqueIdIssues[j].id) \in IndexCollisions(pkg)
     /\ \A n \in IndexCollisions(pkg) :
          Cardinality({j \in DOMAIN UniqueIdIssues :
                         /\ IsInt(UniqueIdIssues[j].id)
                         /\ IntOf(UniqueIdIssues[j].id) = n}) = 1

\* the issues of one check in the verdict
IssuesOf(check) ==
  IF verdict.status = "FAIL"
  THEN SelectSeq(verdict.issues, LAMBDA x : x.check = check)
  ELSE <<>>

\* the non-empty ids on the nodes of `tag` of the document
MarkIds(tag) ==
  {IdAt(pkg[DocPath].els, i) :
     i \in {i \in DOMAIN pkg[DocPath].els : pkg[DocPath].els[i].tag = tag}} \ {""}

\* C21: check_comment_consistency returns no issue exactly when the id sets
\* of commentRangeStart, commentRangeEnd and commentReference are equal; every
\* id in some but not all of the three sets is named by an issue; the number
\* of issues is |starts\ends| + |starts\refs| + |ends\starts| + |refs\starts|.
C21_ConsistencyIssues ==
  (JustValidated /\ parse_ok(pkg, DocPath)) =>
     LET starts == MarkIds("w:commentRangeStart")
         ends == MarkIds("w:commentRangeEnd")
         refs == MarkIds("w:commentReference")
         iss == IssuesOf("comment_consistency")
     IN /\ (iss = <<>>) <=> (starts = ends /\ ends = refs)
        /\ \A id \in (starts \cup ends \cup refs) \ (starts \cap ends \cap refs) :
              \E j \in DOMAIN iss : iss[j].value = id
        /\ Len(iss) = Cardinality(starts \ ends) + Cardinality(starts \ refs)
                        + Cardinality(ends \ starts) + Cardinality(refs \ starts)

\* an id with an end and a reference but no start, next to a start alone:
\* four issues
C21_Witness ==
  /\ JustValidated
  /\ parse_ok(pkg, DocPath)
  /\ (MarkIds("w:commentRangeEnd") \cap MarkIds("w:commentReference"))
        \ MarkIds("w:commentRangeStart") # {}
  /\ MarkIds("w:commentRangeStart") # {}
  /\ Len(IssuesOf("comment_consistency")) = 4

\* the non-empty values of attr on the entries of `tag` of a metadata part
MetaIds(path, tag, attr) ==
  {getAttribute(e, attr) : e \in Entries(pkg, path, tag)} \ {""}

\* the issues iss carrying `message` name each member of S once, and nothing else
OnePer(iss, message, S) ==
  LET mine == SelectSeq(iss, LAMBDA x : x.message = message)
  IN /\ Len(mine) = Cardinality(S)
     /\ {mine[j].value : j \in DOMAIN mine} = S

ArtifactMessages ==
  <<"commentsExtended has paraId with no matching w:comment",
    "commentsIds has paraId with no matching w:comment",
    "w:comment paraId missing from commentsExtended",
    "w:comment paraId missing from commentsIds">>

MessagesNaming(path) ==
  IF path = ExtPath THEN {ArtifactMessages[1], ArtifactMessages[3]}
  ELSE IF path = IdsPath THEN {ArtifactMessages[2], ArtifactMessages[4]}
  ELSE {}

\* C23: a part that exists but is not well-formed contributes no issue: the
\* verdict is the one of the package without that part, and no
\* comment_artifacts issue names an unparseable commentsExtended or commentsIds.
C23_UnparseablePartSilent ==
  JustValidated =>
     \A path \in Paths :
        pkg[path] = Bad =>
           /\ verdict = validate_main([pkg EXCEPT ![path] = Absent])
           /\ \A j \in DOMAIN IssuesOf("comment_artifacts") :
                 IssuesOf("comment_artifacts")[j].message \notin MessagesNaming(path)

\* the commentsExtensible entry clean_orphaned_comments is to remove, given
\* the valid-durableId set
ExtensibleOrphan(e, valid_durable_ids) ==
  /\ e.tag = "w16cex:commentExtensible"
  /\ getAttribute(e, "w16cex:durableId") # ""
  /\ valid_durable_ids # {}
  /\ getAttribute(e, "w16cex:durableId") \notin valid_durable_ids

\* C24: clean_orphaned_comments removes a commentsExtensible entry exactly
\* when its durableId is non-empty, the valid-durableId set taken from the
\* commentsExtended entries with a valid paraId is non-empty, and the
\* durableId is not in that set; when the set is empty the part keeps every
\* entry and is not written.
C24_ExtensibleRemoval ==
  Ran("clean_orphaned_comments") =>
     LET valid == LiveDurableIds(pkg0)
     IN /\ pkg[ExtensiblePath].st = pkg0[ExtensiblePath].st
        /\ pkg[ExtensiblePath].els =
              SelectSeq(pkg0[ExtensiblePath].els,
                        LAMBDA e : ~ExtensibleOrphan(e, valid))
        /\ valid = {} =>
              /\ pkg[ExtensiblePath] = pkg0[ExtensiblePath]
              /\ ExtensiblePath \notin Range(log[1].writes)

\* one commentsExtensible entry was removed and another kept
C24_Witness ==
  /\ Ran("clean_orphaned_comments")
  /\ LiveDurableIds(pkg0) # {}
  /\ ExtensiblePath \in Range(log[1].writes)
  /\ Len(pkg0[ExtensiblePath].els) = 2
  /\ Len(pkg[ExtensiblePath].els) = 1

\* what a duplicate_entries issue says of a manifest entry
DupMessage(e) ==
  <<"Duplicate", e.tag>>
    \o KeyOf(e, IF e.tag = "Override" THEN PartNameKey
                ELSE IF e.tag = "Default" THEN ExtensionKey
                ELSE TypeTargetKey)

\* the number of elements of s that satisfy x.file = file, x.message = message
CountIssues(s, file, message) ==
  Cardinality({j \in DOMAIN s : s[j].file = file /\ s[j].message = message})

CountEntries(els, message) ==
  Cardinality({i \in DOMAIN els : DupMessage(els[i]) = message})

\* C25: the duplicate_entries issues of a package are as many as
\* content_types_removed + rels_removed of dedup_relationships on it, each
\* issue standing for one node the phase removes from the file it names; on
\* the package the phase produces the check reports nothing.
C25_DuplicateCheckMirrorsDedup ==
  /\ Ran("dedup_relationships") =>
        LET iss == IssuesOf("duplicate_entries")
            sm == log[Len(log)].summary
        IN /\ Len(iss) = sm.content_types_removed + sm.rels_removed
           /\ \A f \in {CtPath} \cup RelsPaths :
                 \A m \in {DupMessage(pkg0[f].els[i]) : i \in DOMAIN pkg0[f].els} :
                    CountIssues(iss, f, m)
                      = CountEntries(pkg0[f].els, m) - CountEntries(pkg[f].els, m)
           /\ check_duplicate_entries(pkg) = <<>>
  /\ (verdict # NoVerdict /\ todo = <<>>) => IssuesOf("duplicate_entries") = <<>>

\* duplicates were reported and removed in the content types and in a .rels file
C25_Witness ==
  /\ Ran("dedup_relationships")
  /\ log[Len(log)].summary.content_types_removed >= 2
  /\ log[Len(log)].summary.rels_removed >= 1
  /\ Len(IssuesOf("duplicate_entries")) >= 3

\* the positions of the w:t nodes of the document the repair has rewritten
Marked ==
  {i \in DOMAIN pkg0[DocPath].els :
     /\ pkg0[DocPath].els[i].tag = "w:t"
     /\ pkg[DocPath].els[i] # pkg0[DocPath].els[i]}

\* C26: the xml_space issues of a document are as many as space_attrs_added
\* of fix_xml_space on it, one per w:t node that receives the marker, in
\* document order; on the document the phase produces the check reports
\* nothing.
C26_SpaceCheckMirrorsFix ==
  /\ Ran("fix_xml_space") =>
        LET iss == IssuesOf("xml_space")
            got == Sorted(Marked)
        IN /\ Len(iss) = log[Len(log)].summary.space_attrs_added
           /\ Len(iss) = Len(got)
           /\ \A j \in DOMAIN got :
                 /\ iss[j].text_preview = Preview(pkg0[DocPath].els[got[j]].text)
                 /\ getAttribute(pkg0[DocPath].els[got[j]], "xml:space") = ""
                 /\ getAttribute(pkg[DocPath].els[got[j]], "xml:space") = "preserve"
           /\ check_xml_space(pkg) = <<>>
  /\ (verdict # NoVerdict /\ todo = <<>>) => IssuesOf("xml_space") = <<>>

\* one run was reported and marked, another with edge whitespace and an
\* xml:space attribute of its own was neither
C26_Witness ==
  /\ Ran("fix_xml_space")
  /\ log[Len(log)].summary.space_attrs_added = 1
  /\ Len(IssuesOf("xml_space")) = 1
  /\ \E i \in DOMAIN pkg0[DocPath].els :
        /\ HasEdgeWhitespace(pkg0[DocPath].els[i])
        /\ getAttribute(pkg0[DocPath].els[i], "xml:space") = "default"
        /\ i \notin Marked

\* the w:id values of the w:comment entries of comments.xml, in file order
EntryIds(p) ==
  LET idx == get_elements_by_tag(p[CommentsPath].els, "w:comment")
  IN [j \in DOMAIN idx |-> IdAt(p[CommentsPath].els, idx[j])]

\* C27: if the w:comment entries of comments.xml had pairwise distinct ids
\* before deconflict_ids they have pairwise distinct ids after it, and no
\* fresh comment id is the id of an entry that was already there.
C27_FreshIdsMissCommentsXml ==
  (Ran("deconflict_ids") /\ Readable(pkg0, CommentsPath) /\ NoRepeat(EntryIds(pkg0))) =>
     /\ NoRepeat(EntryIds(pkg))
     /\ \A n \in Moved(COMMENT_DOC_TAGS) :
           Str(NewId(COMMENT_DOC_TAGS, n)) \notin Range(EntryIds(pkg0))

\* the phases in the order they ran
PhasesRun == [k \in DOMAIN log |-> log[k].phase]

\* C28: whatever the order in which the four phases run one after the other,
\* the final package and the counters of each phase are those of the order
\* of main.
C28_PhasesCommute ==
  todo = <<>> =>
     /\ pkg = main(pkg0)
     /\ \A k \in DOMAIN log : log[k].summary = main_results(pkg0)[log[k].phase]

\* the phases ran in the reverse of the order of main and each of them
\* changed something
C28_Witness ==
  /\ todo = <<>>
  /\ PhasesRun = <<"fix_xml_space", "clean_orphaned_comments",
                   "dedup_relationships", "deconflict_ids">>
  /\ \A k \in DOMAIN log : log[k].changed # {}

\* two w:id values name the same id: the same integer, or, for values that
\* are not integers, the same string; a missing w:id names none
SameId(a, b) ==
  /\ a # ""
  /\ b # ""
  /\ IF IsInt(a) /\ IsInt(b) THEN IntOf(a) = IntOf(b)
     ELSE IF IsInt(a) \/ IsInt(b) THEN FALSE
     ELSE a = b

\* the positions of the comment-kind nodes of the document
CommentNodes ==
  {i \in DOMAIN pkg0[DocPath].els : pkg0[DocPath].els[i].tag \in Range(COMMENT_DOC_TAGS)}

\* every comment id of the document has a range-start, a range-end and a reference
Complete(p) ==
  \A i \in CommentNodes :
     IdAt(p[DocPath].els, i) # "" =>
        \A t \in Range(COMMENT_DOC_TAGS) :
           \E j \in CommentNodes :
              /\ p[DocPath].els[j].tag = t
              /\ SameId(IdAt(p[DocPath].els, i), IdAt(p[DocPath].els, j))

\* C29: two comment-kind nodes of the document carry the same id after
\* deconflict_ids exactly if they did before; a document whose comment ids
\* each have a range-start, a range-end and a reference keeps that property
\* (also as check_comment_consistency judges it); with a parseable
\* comments.xml a document comment id that matched a w:comment entry still
\* matches that entry.
C29_CommentGroupingPreserved ==
  (Ran("deconflict_ids") /\ parse_ok(pkg0, DocPath)) =>
     /\ \A i, j \in CommentNodes :
           SameId(IdAt(pkg[DocPath].els, i), IdAt(pkg[DocPath].els, j))
             <=> SameId(IdAt(pkg0[DocPath].els, i), IdAt(pkg0[DocPath].els, j))
     /\ Complete(pkg0) => Complete(pkg)
     /\ check_comment_consistency(pkg0) = <<>> => check_comment_consistency(pkg) = <<>>
     /\ Readable(pkg0, CommentsPath) =>
           \A i \in CommentNodes :
              \A k \in DOMAIN pkg0[CommentsPath].els :
                 (/\ pkg0[CommentsPath].els[k].tag = "w:comment"
                  /\ SameId(IdAt(pkg0[DocPath].els, i), IdAt(pkg0[CommentsPath].els, k)))
                   => SameId(IdAt(pkg[DocPath].els, i), IdAt(pkg[CommentsPath].els, k))

\* a comment with its three nodes and its w:comment entry was renumbered
C29_Witness ==
  /\ Ran("deconflict_ids")
  /\ parse_ok(pkg0, DocPath)
  /\ Complete(pkg0)
  /\ Cardinality({i \in CommentNodes : Rewritten(i)}) = 3
  /\ Readable(pkg0, CommentsPath)
  /\ CommentsPath \in log[1].changed

\* the join key attribute of the entries of a metadata part
JoinKey(path) ==
  IF path = ExtPath THEN "w15:paraId"
  ELSE IF path = IdsPath THEN "w16cid:paraId"
  ELSE "w16cex:durableId"

MetaPaths == {ExtPath, IdsPath, ExtensiblePath}

\* the entries of a part that carry no join key, in file order
Keyless(p, path) ==
  SelectSeq(p[path].els, LAMBDA e : getAttribute(e, JoinKey(path)) = "")

\* C30: clean_orphaned_comments only removes entries, and never one whose
\* join key (paraId, or durableId in commentsExtensible) is missing or empty;
\* orphans_removed is the number of entries removed from the three metadata
\* parts; comments.xml is neither changed nor written.
C30_OnlyKeyedEntriesRemoved ==
  Ran("clean_orphaned_comments") =>
     /\ \A path \in MetaPaths :
           /\ pkg[path].st = pkg0[path].st
           /\ IsSubseq(pkg[path].els, pkg0[path].els)
           /\ Keyless(pkg, path) = Keyless(pkg0, path)
     /\ log[1].summary.orphans_removed
          = SumSeq([k \in 1..3 |->
                      LET path == <<ExtPath, IdsPath, ExtensiblePath>>[k]
                      IN Len(pkg0[path].els) - Len(pkg[path].els)])
     /\ Changed(pkg0, pkg) \subseteq MetaPaths
     /\ Range(log[1].writes) \subseteq MetaPaths

\* orphans went from two parts while entries without a join key stayed
C30_Witness ==
  /\ Ran("clean_orphaned_comments")
  /\ log[1].summary.orphans_removed >= 2
  /\ Cardinality(log[1].changed) >= 2
  /\ \E path \in log[1].changed : Keyless(pkg, path) # <<>>

====
